---- MODULE Spec2Model ----
(***************************************************************************)
(* Release asset synchronisation of github-release-action                  *)
(* (src/src/asset.js): discovery of the desired assets from the glob       *)
(* descriptors of config.assets, de-duplication, the diff against the      *)
(* release's existing assets, the concurrent upload / delete-then-upload   *)
(* operations and the aggregation of their settled results.                *)
(*                                                                         *)
(* Strings are sequences of one-character strings, so that basename,       *)
(* toLowerCase, glob matching and localeCompare are computed, not assumed. *)
(***************************************************************************)
EXTENDS Integers, Sequences, FiniteSets, TLC

VARIABLES
    assets,          \* config.assets: the descriptors, in their given order
    existingAssets,  \* release.assets: the release's assets when the pass starts
    remote,          \* the assets the remote release holds now (a bag: a list)
    pc,              \* "find" | "executing" | "returned" | "thrown"
    idx,             \* findAssets: index of the next descriptor to expand
    found,           \* findAssets: the candidates discovered so far
    notes,           \* info(): the "optional asset not found" notes, in order
    warnings,        \* warning(): the names of the dropped duplicates, in order
    desiredAssets,   \* the list findAssets returned
    groupState,      \* group("Modifying release assets"): "none" | "open" | "closed"
    toUpload,        \* diffAssets(...).toUpload
    toUpdate,        \* diffAssets(...).toUpdate: pairs <<existing, desired>>
    uploads,         \* the upload batch: one promise per entry of toUpload
    updates,         \* the update batch: one promise per entry of toUpdate
    uploadResult,    \* analyzeResults(uploadResults)
    updateResult,    \* analyzeResults(updateResults)
    result,          \* what modifyReleaseAssets returned: <<isSuccess, sortedAssets>>
    thrown,          \* the error modifyReleaseAssets rejected with
    tag,             \* waitForCompletedTagWorkflowRun: the tag argument
    runPc,           \* "idle" | "sleeping" | "listing" | "returned" | "thrown"
    sleepCount,      \* the sleeps that have ended
    requestCount,    \* the listWorkflowRuns requests that were answered
    response,        \* the last answer of listWorkflowRuns
    run,             \* the run waitForCompletedTagWorkflowRun returned
    tags,            \* waitForCompletedTagWorkflowRuns: the tags argument
    runsPc,          \* "idle" | "sleeping" | "paging" | "returned"
    scans,           \* the scans of the listing begun, one after each sleep
    pageNo,          \* the pages of the current scan received so far
    tagRuns,         \* tagRuns of the current scan: tag -> run
    scanned,         \* the ids of the runs the current scan has looked at
    done,            \* the page iterator of the current scan is exhausted
    runs             \* the array waitForCompletedTagWorkflowRuns returned

passVars == <<assets, existingAssets, remote, pc, idx, found, notes, warnings,
              desiredAssets, groupState, toUpload, toUpdate, uploads, updates,
              uploadResult, updateResult, result, thrown>>

runVars == <<tag, runPc, sleepCount, requestCount, response, run>>

runsVars == <<tags, runsPc, scans, pageNo, tagRuns, scanned, done, runs>>

vars == <<passVars, runVars, runsVars>>

(***************************************************************************)
(* The test helpers that wait for workflow runs, when they are not called. *)
(***************************************************************************)
TagNames == {"v1", "v2"}

NoRun == [id |-> 0, event |-> "none", status |-> "none", head_branch |-> "none"]

NoResponse == [kind |-> "none", status |-> 0, workflow_runs |-> <<>>]

RunIdle ==
    /\ tag = "none"
    /\ runPc = "idle"
    /\ sleepCount = 0
    /\ requestCount = 0
    /\ response = NoResponse
    /\ run = NoRun

RunsIdle ==
    /\ tags = <<>>
    /\ runsPc = "idle"
    /\ scans = 0
    /\ pageNo = 0
    /\ tagRuns = [t \in TagNames |-> NoRun]
    /\ scanned = {}
    /\ done = FALSE
    /\ runs = <<>>

(***************************************************************************)
(* Bounds of the model.                                                    *)
(***************************************************************************)
\* the longest config.assets list Init draws
MaxAssets == 2

(***************************************************************************)
(* Strings.                                                                *)
(***************************************************************************)
Empty == <<>>

\* String.prototype.toLowerCase on one character of the model's alphabet
LowerChar(c) ==
    CASE c = "A" -> "a"
      [] c = "B" -> "b"
      [] c = "J" -> "j"
      [] c = "L" -> "l"
      [] c = "N" -> "n"
      [] c = "O" -> "o"
      [] c = "S" -> "s"
      [] c = "T" -> "t"
      [] c = "X" -> "x"
      [] OTHER   -> c

ToLowerCase(s) == [i \in 1..Len(s) |-> LowerChar(s[i])]

\* path.basename: what follows the last "/"
RECURSIVE Basename(_)
Basename(path) ==
    IF \E i \in 1..Len(path) : path[i] = "/"
    THEN Basename(Tail(path))
    ELSE path

\* The collation order String.prototype.localeCompare applies (ICU, root/en
\* rules): punctuation before digits before letters; letters are ordered
\* alphabetically whatever their case (primary weight), and only when two
\* strings are equal at that level the lower-case form sorts first
\* (tertiary weight).
CollationOrder ==
    <<".", "1", "2", "a", "b", "d", "e", "j", "l", "n", "o", "s", "t", "x", "z">>

PrimaryWeight(c) ==
    CHOOSE i \in 1..Len(CollationOrder) : CollationOrder[i] = LowerChar(c)

TertiaryWeight(c) == IF LowerChar(c) = c THEN 0 ELSE 1

\* lexicographic comparison of two sequences of weights: -1, 0 or 1
RECURSIVE CompareWeights(_, _)
CompareWeights(a, b) ==
    IF a = <<>> /\ b = <<>> THEN 0
    ELSE IF a = <<>> THEN -1
    ELSE IF b = <<>> THEN 1
    ELSE IF Head(a) < Head(b) THEN -1
    ELSE IF Head(a) > Head(b) THEN 1
    ELSE CompareWeights(Tail(a), Tail(b))

PrimaryKey(s)  == [i \in 1..Len(s) |-> PrimaryWeight(s[i])]
TertiaryKey(s) == [i \in 1..Len(s) |-> TertiaryWeight(s[i])]

LocaleCompare(a, b) ==
    LET p == CompareWeights(PrimaryKey(a), PrimaryKey(b))
    IN  IF p # 0 THEN p ELSE CompareWeights(TertiaryKey(a), TertiaryKey(b))

(***************************************************************************)
(* The local file system and @actions/glob.                                *)
(***************************************************************************)
\* The working directory, in the order the globber walks it, paths relative
\* to it (the working directory itself is the empty path):
\*   ./  a.txt  b.1.json  b.2.json  d/  d/A.txt  e/
FS ==
    << [path |-> Empty,                                      isDirectory |-> TRUE],
       [path |-> <<"a", ".", "t", "x", "t">>,                isDirectory |-> FALSE],
       [path |-> <<"b", ".", "1", ".", "j", "s", "o", "n">>, isDirectory |-> FALSE],
       [path |-> <<"b", ".", "2", ".", "j", "s", "o", "n">>, isDirectory |-> FALSE],
       [path |-> <<"d">>,                                    isDirectory |-> TRUE],
       [path |-> <<"d", "/", "A", ".", "t", "x", "t">>,      isDirectory |-> FALSE],
       [path |-> <<"e">>,                                    isDirectory |-> TRUE] >>

\* split(/\/+/): the parts of a pattern or of a path between its runs of "/"
RECURSIVE SplitFrom(_, _, _, _)
SplitFrom(s, k, part, parts) ==
    IF k > Len(s) THEN Append(parts, part)
    ELSE IF s[k] = "/"
         THEN IF k > 1 /\ s[k - 1] = "/"
              THEN SplitFrom(s, k + 1, part, parts)
              ELSE SplitFrom(s, k + 1, Empty, Append(parts, part))
         ELSE SplitFrom(s, k + 1, Append(part, s[k]), parts)

SplitSlashes(s) == SplitFrom(s, 1, Empty, <<>>)

\* one part of a pattern as a regular expression over one part of a path:
\* "*" is any run of characters, every other character is itself
RECURSIVE PartGlob(_, _)
PartGlob(pattern, part) ==
    IF pattern = Empty THEN part = Empty
    ELSE IF Head(pattern) = "*"
         THEN \/ PartGlob(Tail(pattern), part)
              \/ /\ part # Empty
                 /\ Head(part) # "/"
                 /\ PartGlob(pattern, Tail(part))
         ELSE /\ part # Empty
              /\ Head(part) = Head(pattern)
              /\ PartGlob(Tail(pattern), Tail(part))

HasMagic(pattern) == \E i \in 1..Len(pattern) : pattern[i] = "*"

DotDirs == {<<".">>, <<".", ".">>}

\* one part of a pattern against one part of a path: a part without "*" is
\* compared as a string; a part with "*" matches no empty part and, when it
\* begins with "*", neither "." nor ".."
PartMatch(pattern, part) ==
    IF HasMagic(pattern)
    THEN /\ part # Empty
         /\ Head(pattern) = "*" => part \notin DotDirs
         /\ PartGlob(pattern, part)
    ELSE pattern = part

GlobStar == <<"*", "*">>

\* minimatch's matchOne over the parts: a "**" part stands for any number of
\* parts, a path may end in one "/" more than its pattern, and a pattern that
\* has parts left when the path ends does not match
RECURSIVE MatchOne(_, _, _, _)
MatchOne(file, pattern, fi, pi) ==
    IF fi > Len(file) /\ pi > Len(pattern) THEN TRUE
    ELSE IF fi > Len(file) THEN FALSE
    ELSE IF pi > Len(pattern) THEN fi = Len(file) /\ file[fi] = Empty
    ELSE IF pattern[pi] = GlobStar
         THEN IF pi = Len(pattern)
              THEN \A fr \in fi..Len(file) : file[fr] \notin DotDirs
              ELSE \E fr \in fi..Len(file) :
                      /\ \A k \in fi..(fr - 1) : file[k] \notin DotDirs
                      /\ MatchOne(file, pattern, fr, pi + 1)
         ELSE /\ PartMatch(pattern[pi], file[fi])
              /\ MatchOne(file, pattern, fi + 1, pi + 1)

\* one glob pattern against one path
GlobMatch(pattern, path) ==
    IF pattern = Empty THEN path = Empty
    ELSE MatchOne(SplitSlashes(path), SplitSlashes(pattern), 1, 1)

\* process.cwd(): the directory the paths of FS are relative to
Cwd == <<"/", "w">>

\* normalizeSeparators: every run of "/" becomes one "/"
RECURSIVE NormalizeSeparators(_)
NormalizeSeparators(s) ==
    IF Len(s) < 2 THEN s
    ELSE IF s[1] = "/" /\ s[2] = "/"
         THEN NormalizeSeparators(Tail(s))
         ELSE <<s[1]>> \o NormalizeSeparators(Tail(s))

\* hasRoot, hasAbsoluteRoot
HasRoot(s) == s # Empty /\ s[1] = "/"

EndsWithSeparator(s) == s # Empty /\ s[Len(s)] = "/"

\* safeTrimTrailingSeparator: normalized, and without the "/" at its end
\* unless it is the root
SafeTrimTrailingSeparator(s) ==
    CHOOSE t \in { IF EndsWithSeparator(n) /\ n # <<"/">>
                   THEN SubSeq(n, 1, Len(n) - 1)
                   ELSE n : n \in {NormalizeSeparators(s)} } : TRUE

\* new Path(s).segments: the root when there is one, then the parts between
\* the separators
Segments(s) ==
    CHOOSE g \in { IF HasRoot(t)
                   THEN <<<<"/">>>> \o (IF Len(t) = 1 THEN <<>>
                                        ELSE SplitSlashes(Tail(t)))
                   ELSE SplitSlashes(t)
                   : t \in {SafeTrimTrailingSeparator(s)} } : TRUE

\* Pattern.getLiteral: the segment itself when it has no wildcard
Literal(segment) == IF HasMagic(segment) THEN Empty ELSE segment

\* what fixupPattern refuses ("Relative pathing '.' and '..' is not
\* allowed"): a "." segment that is not the first, or a ".." segment
InvalidPattern(pattern) ==
    /\ pattern # Empty
    /\ \E g \in {Segments(pattern)} :
          \E k \in 1..Len(g) :
              \/ Literal(g[k]) = <<".">> /\ k # 1
              \/ Literal(g[k]) = <<".", ".">>

\* fixupPattern: separators normalized, a leading "." segment replaced by
\* the working directory, and a pattern without root put under the working
\* directory
FixupPattern(pattern) ==
    CHOOSE f \in { NormalizeSeparators(
                      IF n = <<".">> \/ (Len(n) >= 2 /\ n[1] = "." /\ n[2] = "/")
                      THEN Cwd \o Tail(n)
                      ELSE IF ~HasRoot(n)
                           THEN Cwd \o <<"/">> \o n
                           ELSE n)
                   : n \in {NormalizeSeparators(pattern)} } : TRUE

\* new Pattern(pattern, isImplicitPattern): whether it ended in a separator,
\* its segments, the pattern minimatch is given and the parts minimatch
\* makes of it
NewPattern(pattern, isImplicitPattern) ==
    CHOOSE p \in { [trailingSeparator |-> EndsWithSeparator(f),
                    isImplicitPattern |-> isImplicitPattern,
                    segments |-> Segments(f),
                    minimatch |-> SafeTrimTrailingSeparator(f),
                    set |-> SplitSlashes(SafeTrimTrailingSeparator(f))]
                   : f \in {FixupPattern(pattern)} } : TRUE

EndsWithGlobStar(p) == p.segments[Len(p.segments)] = GlobStar

\* Pattern.match(itemPath): the kinds of item the pattern takes at that
\* path (MatchKind None, Directory or All). Before a final "**" the path of
\* an item is given a "/" at its end, unless the pattern is implicit; a
\* pattern that ended in "/" takes directories only.
PatternMatch(p, itemPath) ==
    LET item == IF EndsWithGlobStar(p)
                THEN IF ~EndsWithSeparator(itemPath) /\ ~p.isImplicitPattern
                     THEN NormalizeSeparators(itemPath) \o <<"/">>
                     ELSE NormalizeSeparators(itemPath)
                ELSE SafeTrimTrailingSeparator(itemPath)
    IN  IF MatchOne(SplitSlashes(item), p.set, 1, 1)
        THEN IF p.trailingSeparator THEN {"directory"} ELSE {"file", "directory"}
        ELSE {}

\* new Path(segments.concat("**")).toString(): the pattern of the
\* descendants
ImplicitDescendants(p) ==
    IF p.minimatch = <<"/">>
    THEN p.minimatch \o GlobStar
    ELSE p.minimatch \o <<"/">> \o GlobStar

\* DefaultGlobber.create: no pattern for the empty line; otherwise the
\* pattern the caller gave and, as implicitDescendants has it, the pattern
\* of its descendants when it ended in "/" or does not end in "**"
Patterns(pattern) ==
    IF pattern = Empty THEN {}
    ELSE
    CHOOSE ps \in { IF p.trailingSeparator \/ ~EndsWithGlobStar(p)
                    THEN {p, NewPattern(ImplicitDescendants(p), TRUE)}
                    ELSE {p}
                    : p \in {NewPattern(pattern, FALSE)} } : TRUE

\* the path of an item of FS as the walk has it, under the working
\* directory
ItemPath(path) == IF path = Empty THEN Cwd ELSE Cwd \o <<"/">> \o path

\* patternHelper.match: the kinds the patterns take at the path of an item
Match(patterns, itemPath) ==
    UNION {PatternMatch(p, itemPath) : p \in patterns}

\* the kinds the patterns of a pattern take at the path of an item, given
\* as FS has it, relative to the working directory
MatchKinds(pattern, path) == Match(Patterns(pattern), ItemPath(path))

\* the walk yields the item: the patterns take items of its kind at its
\* path
Yields(patterns, e) ==
    (IF e.isDirectory THEN "directory" ELSE "file")
        \in Match(patterns, ItemPath(e.path))

\* patterns that match files, taken without overrides: one file by its
\* name, two files by a wildcard, and every entry of the directory
PlainPatterns ==
    { <<"a", ".", "t", "x", "t">>,
      <<"b", ".", "*", ".", "j", "s", "o", "n">>,
      <<"*">> }

\* patterns taken with a name and a label override: one file by its name,
\* two files by a wildcard, one file by a wildcard
OverriddenPatterns ==
    { <<"a", ".", "t", "x", "t">>,
      <<"b", ".", "*", ".", "j", "s", "o", "n">>,
      <<"b", ".", "1", ".", "*">> }

\* every pattern the descriptors of the inputs give
AllPatterns ==
    PlainPatterns \cup OverriddenPatterns
       \cup {<<"z", ".", "t", "x", "t">>, <<"e">>}

\* what createGlob raises for a pattern fixupPattern refuses
InvalidPatternError == "InvalidPattern"

\* createGlob(pattern) and the walk of globGenerator(): whether createGlob
\* raised and, when it did not, the items yielded, in the order of the walk
\* (none for the empty pattern, which makes no pattern at all)
Globber(pattern) ==
    IF InvalidPattern(pattern) THEN [threw |-> TRUE, yielded |-> <<>>]
    ELSE CHOOSE g \in { [threw |-> FALSE,
                         yielded |-> SelectSeq(FS, LAMBDA e : Yields(patterns, e))]
                        : patterns \in {Patterns(pattern)} } : TRUE

\* the globbers of the patterns of the inputs, made once
Globbers == {<<pattern, Globber(pattern)>> : pattern \in AllPatterns}

CreateGlob(pattern) ==
    IF pattern \in AllPatterns
    THEN (CHOOSE g \in Globbers : g[1] = pattern)[2]
    ELSE Globber(pattern)

\* the items globGenerator() yields for the pattern, or the error createGlob
\* raised
Glob(pattern) ==
    IF CreateGlob(pattern).threw
    THEN InvalidPatternError
    ELSE CreateGlob(pattern).yielded

\* globber.globGenerator() yields the path: the pattern is one createGlob
\* takes, and the path is that of an item the walk yields
GlobHit(pattern, path) ==
    \E g \in {CreateGlob(pattern)} :
       \E k \in 1..Len(g.yielded) : g.yielded[k].path = path

\* path.extname of a base name: from its last "." on, and nothing when it
\* has no "." or only the one it begins with
Extname(base) ==
    LET dots == {i \in 1..Len(base) : base[i] = "."}
        last == IF dots = {} THEN 0
                ELSE CHOOSE i \in dots : \A j \in dots : j <= i
    IN  IF last <= 1 THEN Empty ELSE SubSeq(base, last, Len(base))

\* entries of mime-db for extensions written with the characters of
\* CollationOrder, each with the type mime-types prefers for it
MimeTypes ==
    { <<<<"a", "a", "b">>, "application/x-authorware-bin">>,
      <<<<"a", "a", "s">>, "application/x-authorware-seg">>,
      <<<<"a", "s", "o">>, "application/vnd.accpac.simply.aso">>,
      <<<<"a", "s", "x">>, "video/x-ms-asf">>,
      <<<<"a", "t", "x">>, "application/vnd.antix.game-component">>,
      <<<<"a", "z", "s">>, "application/vnd.airzip.filesecure.azs">>,
      <<<<"b", "a", "t">>, "application/x-msdownload">>,
      <<<<"b", "e", "d">>, "application/vnd.realvnc.bed">>,
      <<<<"b", "l", "b">>, "application/x-blorb">>,
      <<<<"b", "o", "x">>, "application/vnd.previewsystems.box">>,
      <<<<"b", "o", "z">>, "application/x-bzip2">>,
      <<<<"b", "z">>, "application/x-bzip">>,
      <<<<"b", "z", "2">>, "application/x-bzip2">>,
      <<<<"d", "a", "e">>, "model/vnd.collada+xml">>,
      <<<<"d", "a", "t", "a", "l", "e", "s", "s">>, "application/vnd.fdsn.seed">>,
      <<<<"d", "d", "2">>, "application/vnd.oma.dd2+xml">>,
      <<<<"d", "d", "d">>, "application/vnd.fujixerox.ddd">>,
      <<<<"d", "e", "b">>, "application/x-debian-package">>,
      <<<<"d", "l", "l">>, "application/x-msdownload">>,
      <<<<"d", "n", "a">>, "application/vnd.dna">>,
      <<<<"d", "o", "t">>, "application/msword">>,
      <<<<"d", "o", "t", "x">>, "application/vnd.openxmlformats-officedocument.wordprocessingml.template">>,
      <<<<"d", "t", "b">>, "application/x-dtbook+xml">>,
      <<<<"d", "t", "d">>, "application/xml-dtd">>,
      <<<<"d", "t", "s">>, "audio/vnd.dts">>,
      <<<<"e", "d", "x">>, "application/vnd.novadigm.edx">>,
      <<<<"e", "o", "l">>, "audio/vnd.digital-winds">>,
      <<<<"e", "o", "t">>, "application/vnd.ms-fontobject">>,
      <<<<"e", "s">>, "application/ecmascript">>,
      <<<<"e", "s", "a">>, "application/vnd.osgi.subsystem">>,
      <<<<"e", "t", "x">>, "text/x-setext">>,
      <<<<"e", "x", "e">>, "application/x-msdos-program">>,
      <<<<"e", "x", "t">>, "application/vnd.novadigm.ext">>,
      <<<<"e", "z">>, "application/andrew-inset">>,
      <<<<"e", "z", "2">>, "application/vnd.ezpix-album">>,
      <<<<"j", "a", "d">>, "text/vnd.sun.j2me.app-descriptor">>,
      <<<<"j", "a", "d", "e">>, "text/jade">>,
      <<<<"j", "l", "t">>, "application/vnd.hp-jlyt">>,
      <<<<"j", "o", "d", "a">>, "application/vnd.joost.joda-archive">>,
      <<<<"j", "s">>, "application/javascript">>,
      <<<<"j", "s", "o", "n">>, "application/json">>,
      <<<<"j", "s", "o", "n", "l", "d">>, "application/ld+json">>,
      <<<<"j", "s", "x">>, "text/jsx">>,
      <<<<"l", "a", "t", "e", "x">>, "application/x-latex">>,
      <<<<"l", "b", "d">>, "application/vnd.llamagraphics.life-balance.desktop">>,
      <<<<"l", "b", "e">>, "application/vnd.llamagraphics.life-balance.exchange+xml">>,
      <<<<"l", "e", "s">>, "application/vnd.hhe.lesson-player">>,
      <<<<"l", "e", "s", "s">>, "text/less">>,
      <<<<"n", "b">>, "application/mathematica">>,
      <<<<"n", "n", "d">>, "application/vnd.noblenet-directory">>,
      <<<<"n", "n", "s">>, "application/vnd.noblenet-sealer">>,
      <<<<"n", "z", "b">>, "application/x-nzb">>,
      <<<<"o", "a", "2">>, "application/vnd.fujitsu.oasys2">>,
      <<<<"o", "a", "s">>, "application/vnd.fujitsu.oasys">>,
      <<<<"o", "b", "d">>, "application/x-msbinder">>,
      <<<<"o", "b", "j">>, "application/x-tgif">>,
      <<<<"o", "d", "a">>, "application/oda">>,
      <<<<"o", "d", "b">>, "application/vnd.oasis.opendocument.database">>,
      <<<<"o", "d", "s">>, "application/vnd.oasis.opendocument.spreadsheet">>,
      <<<<"o", "d", "t">>, "application/vnd.oasis.opendocument.text">>,
      <<<<"o", "t", "s">>, "application/vnd.oasis.opendocument.spreadsheet-template">>,
      <<<<"o", "t", "t">>, "application/vnd.oasis.opendocument.text-template">>,
      <<<<"o", "x", "t">>, "application/vnd.openofficeorg.extension">>,
      <<<<"s">>, "text/x-asm">>,
      <<<<"s", "a", "s", "s">>, "text/x-sass">>,
      <<<<"s", "d", "a">>, "application/vnd.stardivision.draw">>,
      <<<<"s", "d", "d">>, "application/vnd.stardivision.impress">>,
      <<<<"s", "e", "a">>, "application/x-sea">>,
      <<<<"s", "e", "e">>, "application/vnd.seemail">>,
      <<<<"s", "e", "e", "d">>, "application/vnd.fdsn.seed">>,
      <<<<"s", "l", "d", "x">>, "application/vnd.openxmlformats-officedocument.presentationml.slide">>,
      <<<<"s", "l", "t">>, "application/vnd.epson.salt">>,
      <<<<"s", "n", "d">>, "audio/basic">>,
      <<<<"s", "o">>, "application/octet-stream">>,
      <<<<"s", "s", "d", "l">>, "application/ssdl+xml">>,
      <<<<"s", "s", "e">>, "application/vnd.kodak-descriptor">>,
      <<<<"s", "t">>, "application/vnd.sailingtracker.track">>,
      <<<<"s", "t", "d">>, "application/vnd.sun.xml.draw.template">>,
      <<<<"s", "t", "l">>, "application/vnd.ms-pki.stl">>,
      <<<<"s", "x", "d">>, "application/vnd.sun.xml.draw">>,
      <<<<"t">>, "text/troff">>,
      <<<<"t", "a", "o">>, "application/vnd.tao.intent-module-archive">>,
      <<<<"t", "e", "x">>, "application/x-tex">>,
      <<<<"t", "e", "x", "t">>, "text/plain">>,
      <<<<"t", "s">>, "video/mp2t">>,
      <<<<"t", "s", "d">>, "application/timestamped-data">>,
      <<<<"t", "t", "l">>, "text/turtle">>,
      <<<<"t", "x", "d">>, "application/vnd.genomatix.tuxedo">>,
      <<<<"t", "x", "t">>, "text/plain">>,
      <<<<"x", "b", "d">>, "application/vnd.fujixerox.docuworks.binder">>,
      <<<<"x", "l", "a">>, "application/vnd.ms-excel">>,
      <<<<"x", "l", "s">>, "application/vnd.ms-excel">>,
      <<<<"x", "l", "s", "b">>, "application/vnd.ms-excel.sheet.binary.macroenabled.12">>,
      <<<<"x", "l", "s", "x">>, "application/vnd.openxmlformats-officedocument.spreadsheetml.sheet">>,
      <<<<"x", "l", "t">>, "application/vnd.ms-excel">>,
      <<<<"x", "l", "t", "x">>, "application/vnd.openxmlformats-officedocument.spreadsheetml.template">>,
      <<<<"x", "o">>, "application/vnd.olpc-sugar">>,
      <<<<"x", "s", "d">>, "application/xml">>,
      <<<<"x", "s", "l">>, "application/xml">>,
      <<<<"x", "s", "l", "t">>, "application/xslt+xml">>,
      <<<<"x", "z">>, "application/x-xz">>,
      <<<<"z", "1">>, "application/x-zmachine">>,
      <<<<"z", "2">>, "application/x-zmachine">>,
      <<<<"z", "a", "z">>, "application/vnd.zzazz.deck+xml">> }

\* the type mime-db has for an extension, given with its "."; false when
\* there is no extension or mime-db does not know it
MimeType(ext) ==
    LET extension == IF ext = Empty THEN Empty ELSE Tail(ext)
    IN  IF \E m \in MimeTypes : m[1] = extension
        THEN (CHOOSE m \in MimeTypes : m[1] = extension)[2]
        ELSE "false"

\* mime-types lookup(path): the type of the lower-cased extension of the
\* path's base name
Lookup(path) ==
    LET extensions == {ToLowerCase(Extname(base)) : base \in {Basename(path)}}
    IN  CHOOSE type \in {MimeType(ext) : ext \in extensions} : TRUE

(***************************************************************************)
(* Discovery: findAsset, normalizeAsset, findAssets.                       *)
(***************************************************************************)
\* name || basename(path), label = "" by default (an absent name or label is
\* the empty string here: both are falsy, and "" is the label's default)
NormalizeAsset(asset) ==
    [label |-> asset.label,
     name  |-> IF asset.name # Empty THEN asset.name ELSE Basename(asset.path),
     path  |-> asset.path]

\* optional taken for true unless it is false
IsOptional_UnlessFalse(asset) == asset.optional # "false"

\* "if (isOptional)": the optional field of a descriptor is true, false or
\* absent (undefined), and only true is truthy
IsOptional(asset) == asset.optional = "true"

\* findAsset that takes every descriptor for an optional one
FindAsset_NeverThrows(asset) ==
    LET hits == SelectSeq(CreateGlob(asset.path).yielded, LAMBDA e : ~e.isDirectory)
    IN  [threw |-> FALSE, error |-> "none",
         assets |-> [i \in 1..Len(hits) |->
                       [label |-> Empty, name |-> Basename(hits[i].path),
                        path |-> hits[i].path]],
         notes |-> <<>>]

\* findAsset that drops the overrides for every pattern with a wildcard,
\* however many files it matches
FindAsset_ByWildcard(asset) ==
    LET hits  == SelectSeq(CreateGlob(asset.path).yielded,
                           LAMBDA e : ~e.isDirectory)
        plain == [i \in 1..Len(hits) |->
                    NormalizeAsset([label |-> Empty, name |-> Empty,
                                    path |-> hits[i].path])]
    IN  IF Len(hits) < 1
        THEN IF IsOptional(asset)
             THEN [threw |-> FALSE, error |-> "none",
                   assets |-> <<>>, notes |-> <<asset.path>>]
             ELSE [threw |-> TRUE, error |-> "MandatoryAssetNotFound",
                   assets |-> <<>>, notes |-> <<>>]
        ELSE IF \E i \in 1..Len(asset.path) : asset.path[i] = "*"
             THEN [threw |-> FALSE, error |-> "none", assets |-> plain, notes |-> <<>>]
             ELSE [threw |-> FALSE, error |-> "none",
                   assets |-> <<NormalizeAsset([label |-> asset.label,
                                                name  |-> asset.name,
                                                path  |-> hits[1].path])>>,
                   notes |-> <<>>]

\* findAsset(info, asset): what createGlob raises is raised; otherwise the
\* matches that are not directories; none: a note and [] when optional, an
\* error otherwise; several: the overrides are ignored; one: name and label
\* apply
FindAsset(asset) ==
    IF CreateGlob(asset.path).threw
    THEN [threw |-> TRUE, error |-> InvalidPatternError,
          assets |-> <<>>, notes |-> <<>>]
    ELSE
    LET hits  == SelectSeq(CreateGlob(asset.path).yielded,
                           LAMBDA e : ~e.isDirectory)
        plain == [i \in 1..Len(hits) |->
                    NormalizeAsset([label |-> Empty, name |-> Empty,
                                    path |-> hits[i].path])]
    IN  IF Len(hits) < 1
        THEN IF IsOptional(asset)
             THEN [threw |-> FALSE, error |-> "none",
                   assets |-> <<>>, notes |-> <<asset.path>>]
             ELSE [threw |-> TRUE, error |-> "MandatoryAssetNotFound",
                   assets |-> <<>>, notes |-> <<>>]
        ELSE IF Len(hits) > 1
             THEN [threw |-> FALSE, error |-> "none", assets |-> plain, notes |-> <<>>]
             ELSE [threw |-> FALSE, error |-> "none",
                   assets |-> <<NormalizeAsset([label |-> asset.label,
                                                name  |-> asset.name,
                                                path  |-> hits[1].path])>>,
                   notes |-> <<>>]

\* the filter of findAssets: the first entry of each lower-cased name is
\* kept, every later one is dropped with a warning
RECURSIVE FilterFrom(_, _, _, _, _)
FilterFrom(list, k, seen, kept, warned) ==
    IF k > Len(list) THEN [kept |-> kept, warnings |-> warned]
    ELSE LET lowercaseName == ToLowerCase(list[k].name)
         IN  IF lowercaseName \notin seen
             THEN FilterFrom(list, k + 1, seen \cup {lowercaseName},
                             Append(kept, list[k]), warned)
             ELSE FilterFrom(list, k + 1, seen, kept,
                             Append(warned, list[k].name))

\* a filter that forgets a name when it drops a candidate
RECURSIVE ForgetfulFrom(_, _, _, _, _)
ForgetfulFrom(list, k, seen, kept, warned) ==
    IF k > Len(list) THEN [kept |-> kept, warnings |-> warned]
    ELSE LET lowercaseName == ToLowerCase(list[k].name)
         IN  IF lowercaseName \notin seen
             THEN ForgetfulFrom(list, k + 1, seen \cup {lowercaseName},
                                Append(kept, list[k]), warned)
             ELSE ForgetfulFrom(list, k + 1, seen \ {lowercaseName}, kept,
                                Append(warned, list[k].name))

FilterFound_Forgetful(list) == ForgetfulFrom(list, 1, {}, <<>>, <<>>)

\* findAssets without the filter: every candidate is kept
FilterFound_KeepsAll(list) == [kept |-> list, warnings |-> <<>>]

\* the filter with the names compared as they are, case included
FilterFound_CaseSensitive(list) ==
    LET first(i) == \A j \in 1..(i - 1) : list[j].name # list[i].name
        rank(i)  == Cardinality({j \in 1..i : first(j)})
        n        == Cardinality({i \in 1..Len(list) : first(i)})
    IN  [kept |-> [k \in 1..n |->
                     list[CHOOSE i \in 1..Len(list) : first(i) /\ rank(i) = k]],
         warnings |-> <<>>]

FilterFound(list) == FilterFrom(list, 1, {}, <<>>, <<>>)

(***************************************************************************)
(* diffAssets.                                                             *)
(***************************************************************************)
NoAsset == [id |-> 0, name |-> Empty, label |-> Empty, contentType |-> "false"]

\* find with the names compared whatever their case
FindExisting_IgnoreCase(existing, desired) ==
    IF \E i \in 1..Len(existing) :
          ToLowerCase(existing[i].name) = ToLowerCase(desired.name)
    THEN existing[CHOOSE i \in 1..Len(existing) :
                     /\ ToLowerCase(existing[i].name) = ToLowerCase(desired.name)
                     /\ \A j \in 1..(i - 1) :
                           ToLowerCase(existing[j].name) # ToLowerCase(desired.name)]
    ELSE [id |-> 0, name |-> Empty, label |-> Empty, contentType |-> "false"]

\* existingAssets.find((existing) => existing.name === desired.name)
FindExisting(existing, desired) ==
    IF \E i \in 1..Len(existing) : existing[i].name = desired.name
    THEN existing[CHOOSE i \in 1..Len(existing) :
                     /\ existing[i].name = desired.name
                     /\ \A j \in 1..(i - 1) : existing[j].name # desired.name]
    ELSE NoAsset

RECURSIVE DiffFrom(_, _, _, _, _)
DiffFrom(existing, desired, k, upd, upl) ==
    IF k > Len(desired) THEN [toUpdate |-> upd, toUpload |-> upl]
    ELSE LET e == FindExisting(existing, desired[k])
         IN  IF e = NoAsset
             THEN DiffFrom(existing, desired, k + 1, upd, Append(upl, desired[k]))
             ELSE DiffFrom(existing, desired, k + 1,
                           Append(upd, <<e, desired[k]>>), upl)

\* a diff that also uploads what it pairs with an existing asset
DiffAssets_UploadsUpdatesToo(existing, desired) ==
    [toUpdate |-> DiffFrom(existing, desired, 1, <<>>, <<>>).toUpdate,
     toUpload |-> desired]

\* a diff that never pairs a desired artifact with an existing asset
DiffAssets_UploadOnly(existing, desired) ==
    [toUpdate |-> <<>>, toUpload |-> desired]

DiffAssets(existing, desired) == DiffFrom(existing, desired, 1, <<>>, <<>>)

(***************************************************************************)
(* The operations: uploadAsset, updateAsset, deleteAsset.                  *)
(* An operation is a promise with the state of each of its awaited steps:  *)
(*   del  : repos.deleteReleaseAsset   read : readFile   upl : request     *)
(* each "none" (not issued), "pending", "ok" or "failed"; calls counts the  *)
(* times each of them was issued.                                          *)
(***************************************************************************)
NoReason == [step |-> "none", name |-> Empty]

\* uploadAsset that does not read the file when it is called
UploadAsset_Deferred(desired) ==
    [existing |-> NoAsset, desired |-> desired,
     del |-> "none", read |-> "none", upl |-> "none",
     calls |-> [del |-> 0, read |-> 0, upl |-> 0],
     status |-> "pending", value |-> NoAsset, reason |-> NoReason]

\* uploadAsset(desired) up to its first await: readFile is issued
UploadAsset(desired) ==
    [existing |-> NoAsset, desired |-> desired,
     del |-> "none", read |-> "pending", upl |-> "none",
     calls |-> [del |-> 0, read |-> 1, upl |-> 0],
     status |-> "pending", value |-> NoAsset, reason |-> NoReason]

\* updateAsset without the await: the delete and the upload start together
UpdateAsset_NoAwaitDelete(existing, desired) ==
    [existing |-> existing, desired |-> desired,
     del |-> "pending", read |-> "pending", upl |-> "none",
     calls |-> [del |-> 1, read |-> 1, upl |-> 0],
     status |-> "pending", value |-> NoAsset, reason |-> NoReason]

\* updateAsset(existing, desired) up to its first await: the delete is issued
UpdateAsset(existing, desired) ==
    [existing |-> existing, desired |-> desired,
     del |-> "pending", read |-> "none", upl |-> "none",
     calls |-> [del |-> 1, read |-> 0, upl |-> 0],
     status |-> "pending", value |-> NoAsset, reason |-> NoReason]

\* the ids of the assets the release has before the pass
ExistingIds == {1, 2}

\* the upload requests of the pass the remote has accepted so far
Accepted(ups, upds) ==
    Cardinality({i \in 1..Len(ups) : ups[i].upl = "ok"}) +
    Cardinality({i \in 1..Len(upds) : upds[i].upl = "ok"})

\* the id the remote gives the asset of an upload it accepts: the one after
\* the last id it gave, so one per upload and none of an existing asset
NewId(ups, upds) == Cardinality(ExistingIds) + Accepted(ups, upds) + 1

\* the response of the upload request the remote accepts under the id
ApiAsset(desired, id) ==
    [id |-> id, name |-> desired.name, label |-> desired.label,
     content_type |-> Lookup(desired.path)]

NormalizeApiAsset(apiAsset) ==
    [id |-> apiAsset.id, name |-> apiAsset.name, label |-> apiAsset.label,
     contentType |-> apiAsset.content_type]

Reject(op, step) ==
    [op EXCEPT !.status = IF @ = "pending" THEN "rejected" ELSE @,
               !.reason = IF op.status = "pending"
                          THEN [step |-> step, name |-> op.desired.name]
                          ELSE @]

\* updateAsset that swallows the failure of the delete and goes no further
AfterDelete_Stalls(op, ok) ==
    IF ok
    THEN [op EXCEPT !.del = "ok",
                    !.read = IF @ = "none" THEN "pending" ELSE @,
                    !.calls.read = IF op.read = "none" THEN @ + 1 ELSE @]
    ELSE [op EXCEPT !.del = "failed"]

\* updateAsset after "await deleteAsset(existing)"
AfterDelete(op, ok) ==
    IF ok
    THEN [op EXCEPT !.del = "ok",
                    !.read = IF @ = "none" THEN "pending" ELSE @,
                    !.calls.read = IF op.read = "none" THEN @ + 1 ELSE @]
    ELSE Reject([op EXCEPT !.del = "failed"], "delete")

\* uploadAsset after "await readFile(path)": the request is issued
AfterRead(op, ok) ==
    IF ok
    THEN [op EXCEPT !.read = "ok", !.upl = "pending", !.calls.upl = @ + 1]
    ELSE Reject([op EXCEPT !.read = "failed"], "read")

\* uploadAsset that issues the request a second time when the first failed
AfterUpload_RetryOnce(op, ok, id) ==
    IF ok
    THEN [op EXCEPT !.upl = "ok",
                    !.status = IF @ = "pending" THEN "fulfilled" ELSE @,
                    !.value = IF op.status = "pending"
                              THEN NormalizeApiAsset(ApiAsset(op.desired, id))
                              ELSE @]
    ELSE IF op.calls.upl < 2
         THEN [op EXCEPT !.upl = "pending", !.calls.upl = @ + 1]
         ELSE Reject([op EXCEPT !.upl = "failed"], "upload")

\* uploadAsset after "await request(...)"
AfterUpload(op, ok, id) ==
    IF ok
    THEN [op EXCEPT !.upl = "ok",
                    !.status = IF @ = "pending" THEN "fulfilled" ELSE @,
                    !.value = IF op.status = "pending"
                              THEN NormalizeApiAsset(ApiAsset(op.desired, id))
                              ELSE @]
    ELSE Reject([op EXCEPT !.upl = "failed"], "upload")

(***************************************************************************)
(* Aggregation: Promise.allSettled, analyzeResults, the sort.              *)
(***************************************************************************)
Settled(op) == op.status # "pending"

\* the results of a batch listed last operation first
AllSettledResults_Reversed(batch) ==
    [i \in 1..Len(batch) |->
        [status |-> batch[Len(batch) + 1 - i].status,
         value  |-> batch[Len(batch) + 1 - i].value,
         reason |-> batch[Len(batch) + 1 - i].reason]]

\* Promise.allSettled(batch): one {status, value, reason} per promise, by
\* position
AllSettledResults(batch) ==
    [i \in 1..Len(batch) |->
        [status |-> batch[i].status, value |-> batch[i].value,
         reason |-> batch[i].reason]]

\* Promise.all over the operations themselves: over as soon as one rejects
JoinReady_FirstFailure(ups, upds) ==
    \/ /\ \A i \in 1..Len(ups)  : Settled(ups[i])
       /\ \A i \in 1..Len(upds) : Settled(upds[i])
    \/ \E i \in 1..Len(ups)  : ups[i].status = "rejected"
    \/ \E i \in 1..Len(upds) : upds[i].status = "rejected"

\* Promise.all([Promise.allSettled(uploads), Promise.allSettled(updates)])
\* resolves once every promise of both batches has settled
JoinReady(ups, upds) ==
    /\ \A i \in 1..Len(ups)  : Settled(ups[i])
    /\ \A i \in 1..Len(upds) : Settled(upds[i])

NoResult ==
    [isSuccess |-> TRUE, successCount |-> 0, assets |-> <<>>,
     failureCount |-> 0, failureReasons |-> <<>>]

RECURSIVE AnalyzeFrom(_, _, _)
AnalyzeFrom(results, k, acc) ==
    IF k > Len(results) THEN acc
    ELSE AnalyzeFrom(results, k + 1,
            IF results[k].status = "fulfilled"
            THEN [acc EXCEPT !.successCount = @ + 1,
                             !.assets = Append(@, results[k].value)]
            ELSE [acc EXCEPT !.isSuccess = FALSE,
                             !.failureCount = @ + 1,
                             !.failureReasons = Append(@, results[k].reason)])

\* analyzeResults that counts every result as a success
AnalyzeResults_CountsAll(results) ==
    [AnalyzeFrom(results, 1, NoResult) EXCEPT !.successCount = Len(results)]

\* analyzeResults that keeps the value of every result, fulfilled or not
AnalyzeResults_KeepFailed(results) ==
    [AnalyzeFrom(results, 1, NoResult)
        EXCEPT !.assets = [i \in 1..Len(results) |-> results[i].value]]

AnalyzeResults(results) == AnalyzeFrom(results, 1, NoResult)

CompareApiAsset(a, b) == LocaleCompare(a.name, b.name)

\* Array.prototype.sort(compareApiAsset): a stable sort
RECURSIVE InsertSorted(_, _)
InsertSorted(sorted, a) ==
    IF sorted = <<>> THEN <<a>>
    ELSE IF CompareApiAsset(sorted[Len(sorted)], a) <= 0
         THEN Append(sorted, a)
         ELSE Append(InsertSorted(SubSeq(sorted, 1, Len(sorted) - 1), a),
                     sorted[Len(sorted)])

RECURSIVE SortFrom(_, _, _)
SortFrom(list, k, sorted) ==
    IF k > Len(list) THEN sorted
    ELSE SortFrom(list, k + 1, InsertSorted(sorted, list[k]))

\* no sort: the assets in the order of the batches
SortAssets_Unsorted(list) == list

SortAssets(list) == SortFrom(list, 1, <<>>)

\* success as soon as one batch succeeded
IsSuccess_Either(uploadRes, updateRes) ==
    uploadRes.isSuccess \/ updateRes.isSuccess

\* success only when an operation succeeded
IsSuccess_NeedsAnAsset(uploadRes, updateRes) ==
    /\ uploadRes.isSuccess
    /\ updateRes.isSuccess
    /\ uploadRes.successCount + updateRes.successCount > 0

IsSuccess(uploadRes, updateRes) == uploadRes.isSuccess /\ updateRes.isSuccess

(***************************************************************************)
(* Inputs.                                                                 *)
(***************************************************************************)
Descriptor(path, name, label, optional) ==
    [path |-> path, name |-> name, label |-> label, optional |-> optional]

NameUpperA == <<"A", ".", "t", "x", "t">>
LabelL     == <<"L">>

\* the descriptors of a pass: the plain ones leave optional out, and two
\* match no file: nothing at all (optional), and nothing but a directory
\* (mandatory)
Descriptors ==
    {Descriptor(p, Empty, Empty, "absent") : p \in PlainPatterns}
    \cup {Descriptor(p, NameUpperA, LabelL, "false") : p \in OverriddenPatterns}
    \cup {Descriptor(<<"z", ".", "t", "x", "t">>, Empty, Empty, "true"),
          Descriptor(<<"e">>, Empty, Empty, "false")}

SeqsUpTo(S, n) == UNION {[1..k -> S] : k \in 0..n}

RemoteAsset(id, name) ==
    [id |-> id, name |-> name, label |-> Empty, contentType |-> "text/plain"]

\* the assets a release may hold when the pass starts (names are unique)
ExistingUniverse ==
    << RemoteAsset(1, <<"a", ".", "t", "x", "t">>),
       RemoteAsset(2, <<"b", ".", "1", ".", "j", "s", "o", "n">>) >>

SubSeqOf(list, keep) == SelectSeq(list, LAMBDA e : e.id \in keep)

(***************************************************************************)
(* The pass: modifyReleaseAssets.                                          *)
(***************************************************************************)
Init ==
    /\ assets \in SeqsUpTo(Descriptors, MaxAssets)
    /\ \E keep \in SUBSET ExistingIds :
          existingAssets = SubSeqOf(ExistingUniverse, keep)
    /\ remote = existingAssets
    /\ pc = "find"
    /\ idx = 1
    /\ found = <<>>
    /\ notes = <<>>
    /\ warnings = <<>>
    /\ desiredAssets = <<>>
    /\ groupState = "none"
    /\ toUpload = <<>>
    /\ toUpdate = <<>>
    /\ uploads = <<>>
    /\ updates = <<>>
    /\ uploadResult = NoResult
    /\ updateResult = NoResult
    /\ result = <<>>
    /\ thrown = "none"
    /\ RunIdle
    /\ RunsIdle

\* findAssets, one turn of "for (const asset of assets)"
FindNext ==
    /\ pc = "find"
    /\ idx <= Len(assets)
    /\ LET r == FindAsset(assets[idx])
       IN  IF r.threw
           THEN /\ pc' = "thrown"
                /\ thrown' = r.error
                /\ UNCHANGED <<idx, found, notes>>
           ELSE /\ idx' = idx + 1
                /\ found' = found \o r.assets
                /\ notes' = notes \o r.notes
                /\ UNCHANGED <<pc, thrown>>
    /\ UNCHANGED <<runVars, runsVars, assets, existingAssets, remote, warnings, desiredAssets,
                   groupState, toUpload, toUpdate, uploads, updates,
                   uploadResult, updateResult, result>>

\* the end of findAssets (the filter) and modifyReleaseAssets up to
\* "await Promise.all": the early return, or the diff and the start of every
\* operation
Start ==
    /\ pc = "find"
    /\ idx > Len(assets)
    /\ LET f == FilterFound(found)
           d == DiffAssets(existingAssets, f.kept)
       IN  /\ desiredAssets' = f.kept
           /\ warnings' = f.warnings
           /\ IF Len(existingAssets) < 1 /\ Len(f.kept) < 1
              THEN /\ pc' = "returned"
                   /\ result' = <<TRUE, <<>>>>
                   /\ UNCHANGED <<groupState, toUpload, toUpdate, uploads, updates>>
              ELSE /\ pc' = "executing"
                   /\ groupState' = "open"
                   /\ toUpload' = d.toUpload
                   /\ toUpdate' = d.toUpdate
                   /\ uploads' = [i \in 1..Len(d.toUpload) |->
                                     UploadAsset(d.toUpload[i])]
                   /\ updates' = [i \in 1..Len(d.toUpdate) |->
                                     UpdateAsset(d.toUpdate[i][1], d.toUpdate[i][2])]
                   /\ UNCHANGED result
    /\ UNCHANGED <<runVars, runsVars, assets, existingAssets, remote, idx, found, notes,
                   uploadResult, updateResult, thrown>>

\* a delete that answers without removing the asset
RemoveAsset_Nothing(list, id) == list

RemoveAsset(list, id) == SelectSeq(list, LAMBDA a : a.id # id)

\* repos.deleteReleaseAsset settles for update i
DeleteSettles(i, ok) ==
    /\ pc = "executing"
    /\ i \in 1..Len(updates)
    /\ updates[i].del = "pending"
    /\ updates' = [updates EXCEPT ![i] = AfterDelete(@, ok)]
    /\ remote' = IF ok THEN RemoveAsset(remote, updates[i].existing.id) ELSE remote
    /\ UNCHANGED <<runVars, runsVars, assets, existingAssets, pc, idx, found, notes, warnings,
                   desiredAssets, groupState, toUpload, toUpdate, uploads,
                   uploadResult, updateResult, result, thrown>>

\* readFile settles for upload i
UploadReadSettles(i, ok) ==
    /\ pc = "executing"
    /\ i \in 1..Len(uploads)
    /\ uploads[i].read = "pending"
    /\ uploads' = [uploads EXCEPT ![i] = AfterRead(@, ok)]
    /\ UNCHANGED <<runVars, runsVars, assets, existingAssets, remote, pc, idx, found, notes,
                   warnings, desiredAssets, groupState, toUpload, toUpdate,
                   updates, uploadResult, updateResult, result, thrown>>

\* readFile settles for update i
UpdateReadSettles(i, ok) ==
    /\ pc = "executing"
    /\ i \in 1..Len(updates)
    /\ updates[i].read = "pending"
    /\ updates' = [updates EXCEPT ![i] = AfterRead(@, ok)]
    /\ UNCHANGED <<runVars, runsVars, assets, existingAssets, remote, pc, idx, found, notes,
                   warnings, desiredAssets, groupState, toUpload, toUpdate,
                   uploads, uploadResult, updateResult, result, thrown>>

\* the upload request settles for upload i
UploadRequestSettles(i, ok) ==
    /\ pc = "executing"
    /\ i \in 1..Len(uploads)
    /\ uploads[i].upl = "pending"
    /\ uploads' = [uploads EXCEPT
                       ![i] = AfterUpload(@, ok, NewId(uploads, updates))]
    /\ remote' = IF ok
                 THEN Append(remote,
                             NormalizeApiAsset(ApiAsset(uploads[i].desired,
                                                        NewId(uploads, updates))))
                 ELSE remote
    /\ UNCHANGED <<runVars, runsVars, assets, existingAssets, pc, idx, found, notes, warnings,
                   desiredAssets, groupState, toUpload, toUpdate, updates,
                   uploadResult, updateResult, result, thrown>>

\* the upload request settles for update i
UpdateRequestSettles(i, ok) ==
    /\ pc = "executing"
    /\ i \in 1..Len(updates)
    /\ updates[i].upl = "pending"
    /\ updates' = [updates EXCEPT
                       ![i] = AfterUpload(@, ok, NewId(uploads, updates))]
    /\ remote' = IF ok
                 THEN Append(remote,
                             NormalizeApiAsset(ApiAsset(updates[i].desired,
                                                        NewId(uploads, updates))))
                 ELSE remote
    /\ UNCHANGED <<runVars, runsVars, assets, existingAssets, pc, idx, found, notes, warnings,
                   desiredAssets, groupState, toUpload, toUpdate, uploads,
                   uploadResult, updateResult, result, thrown>>

\* Promise.all over the operations themselves: the first rejection is raised
Aggregate_RaiseFirstFailure ==
    /\ pc = "executing"
    /\ \/ \E i \in 1..Len(uploads) : uploads[i].status = "rejected"
       \/ \E i \in 1..Len(updates) : updates[i].status = "rejected"
    /\ pc' = "thrown"
    /\ thrown' = "OperationFailed"
    /\ groupState' = "closed"
    /\ UNCHANGED <<runVars, runsVars, assets, existingAssets, remote, idx, found, notes, warnings,
                   desiredAssets, toUpload, toUpdate, uploads, updates,
                   uploadResult, updateResult, result>>

\* modifyReleaseAssets after "await Promise.all": analyzeResults, logResults,
\* isSuccess, the sort and the return
Aggregate ==
    /\ pc = "executing"
    /\ JoinReady(uploads, updates)
    /\ LET up  == AnalyzeResults(AllSettledResults(uploads))
           upd == AnalyzeResults(AllSettledResults(updates))
       IN  /\ uploadResult' = up
           /\ updateResult' = upd
           /\ result' = <<IsSuccess(up, upd), SortAssets(up.assets \o upd.assets)>>
    /\ groupState' = "closed"
    /\ pc' = "returned"
    /\ UNCHANGED <<runVars, runsVars, assets, existingAssets, remote, idx, found, notes, warnings,
                   desiredAssets, toUpload, toUpdate, uploads, updates, thrown>>

Next ==
    \/ FindNext
    \/ Start
    \/ \E i \in 1..Len(updates), ok \in BOOLEAN : DeleteSettles(i, ok)
    \/ \E i \in 1..Len(uploads), ok \in BOOLEAN : UploadReadSettles(i, ok)
    \/ \E i \in 1..Len(updates), ok \in BOOLEAN : UpdateReadSettles(i, ok)
    \/ \E i \in 1..Len(uploads), ok \in BOOLEAN : UploadRequestSettles(i, ok)
    \/ \E i \in 1..Len(updates), ok \in BOOLEAN : UpdateRequestSettles(i, ok)
    \/ Aggregate

Spec == Init /\ [][Next]_vars

(***************************************************************************)
(* Discovery alone, over every combination of pattern, overrides and       *)
(* optional, on a release without assets: findAssets and the start of the  *)
(* pass.                                                                   *)
(***************************************************************************)
AllDescriptors ==
    {Descriptor(p, Empty, Empty, o) :
        p \in AllPatterns, o \in {"true", "false", "absent"}}
    \cup {Descriptor(p, NameUpperA, LabelL, o) :
             p \in AllPatterns, o \in {"true", "false", "absent"}}

InitDiscovery ==
    /\ assets \in SeqsUpTo(AllDescriptors, MaxAssets)
    /\ existingAssets = <<>>
    /\ remote = existingAssets
    /\ pc = "find"
    /\ idx = 1
    /\ found = <<>>
    /\ notes = <<>>
    /\ warnings = <<>>
    /\ desiredAssets = <<>>
    /\ groupState = "none"
    /\ toUpload = <<>>
    /\ toUpdate = <<>>
    /\ uploads = <<>>
    /\ updates = <<>>
    /\ uploadResult = NoResult
    /\ updateResult = NoResult
    /\ result = <<>>
    /\ thrown = "none"
    /\ RunIdle
    /\ RunsIdle

NextDiscovery ==
    \/ FindNext
    \/ Start

SpecDiscovery == InitDiscovery /\ [][NextDiscovery]_vars

(***************************************************************************)
(* The pass over the descriptors that name files of the release directory  *)
(* without overrides, on every release: the operations and their steps.    *)
(***************************************************************************)
ExecutionDescriptors ==
    {Descriptor(p, Empty, Empty, "absent") : p \in PlainPatterns \ {<<"*">>}}

InitExecution ==
    /\ assets \in SeqsUpTo(ExecutionDescriptors, MaxAssets)
    /\ \E keep \in SUBSET ExistingIds :
          existingAssets = SubSeqOf(ExistingUniverse, keep)
    /\ remote = existingAssets
    /\ pc = "find"
    /\ idx = 1
    /\ found = <<>>
    /\ notes = <<>>
    /\ warnings = <<>>
    /\ desiredAssets = <<>>
    /\ groupState = "none"
    /\ toUpload = <<>>
    /\ toUpdate = <<>>
    /\ uploads = <<>>
    /\ updates = <<>>
    /\ uploadResult = NoResult
    /\ updateResult = NoResult
    /\ result = <<>>
    /\ thrown = "none"
    /\ RunIdle
    /\ RunsIdle

SpecExecution == InitExecution /\ [][Next]_vars

(***************************************************************************)
(* The pass when every call resolves: the event loop runs each             *)
(* continuation of the pass that is ready, and every readFile, delete and  *)
(* upload request that is pending is eventually answered.                  *)
(***************************************************************************)
Settles ==
    \/ \E i \in 1..Len(updates), ok \in BOOLEAN : DeleteSettles(i, ok)
    \/ \E i \in 1..Len(uploads), ok \in BOOLEAN : UploadReadSettles(i, ok)
    \/ \E i \in 1..Len(updates), ok \in BOOLEAN : UpdateReadSettles(i, ok)
    \/ \E i \in 1..Len(uploads), ok \in BOOLEAN : UploadRequestSettles(i, ok)
    \/ \E i \in 1..Len(updates), ok \in BOOLEAN : UpdateRequestSettles(i, ok)

\* the plain descriptors, an optional one that matches nothing and a
\* mandatory one that matches a directory only
ResolvingDescriptors ==
    ExecutionDescriptors
       \cup {Descriptor(<<"z", ".", "t", "x", "t">>, Empty, Empty, "true"),
             Descriptor(<<"e">>, Empty, Empty, "false")}

InitResolving ==
    /\ assets \in SeqsUpTo(ResolvingDescriptors, MaxAssets)
    /\ \E keep \in SUBSET ExistingIds :
          existingAssets = SubSeqOf(ExistingUniverse, keep)
    /\ remote = existingAssets
    /\ pc = "find"
    /\ idx = 1
    /\ found = <<>>
    /\ notes = <<>>
    /\ warnings = <<>>
    /\ desiredAssets = <<>>
    /\ groupState = "none"
    /\ toUpload = <<>>
    /\ toUpdate = <<>>
    /\ uploads = <<>>
    /\ updates = <<>>
    /\ uploadResult = NoResult
    /\ updateResult = NoResult
    /\ result = <<>>
    /\ thrown = "none"
    /\ RunIdle
    /\ RunsIdle

\* "await Promise.all" is ready to resume: the guard of Aggregate
AwaitReady == pc = "executing" /\ JoinReady(uploads, updates)

\* weak fairness of FindNext, of Start and of the answers, and of Aggregate,
\* whose fairness is written by its guard: a pass does not stay for ever at
\* an await that is ready to resume
SpecResolving ==
    /\ InitResolving
    /\ [][Next]_vars
    /\ WF_vars(FindNext)
    /\ WF_vars(Start)
    /\ WF_vars(Settles)
    /\ []<>(~AwaitReady)

(***************************************************************************)
(* waitForCompletedTagWorkflowRun(fileName, tag): sleep, list the runs of  *)
(* the workflow one per page, and return the first run when it is the      *)
(* completed push run of the tag; otherwise go round again.                *)
(***************************************************************************)
MaxPolls == 4

PassIdle ==
    /\ assets = <<>>
    /\ existingAssets = <<>>
    /\ remote = <<>>
    /\ pc = "find"
    /\ idx = 1
    /\ found = <<>>
    /\ notes = <<>>
    /\ warnings = <<>>
    /\ desiredAssets = <<>>
    /\ groupState = "none"
    /\ toUpload = <<>>
    /\ toUpdate = <<>>
    /\ uploads = <<>>
    /\ updates = <<>>
    /\ uploadResult = NoResult
    /\ updateResult = NoResult
    /\ result = <<>>
    /\ thrown = "none"

WorkflowRun(id, event, status, head_branch) ==
    [id |-> id, event |-> event, status |-> status, head_branch |-> head_branch]

\* the runs a listing can hold: two completed push runs of v1, one of v2, a
\* push run of v2 in progress, a completed run of v1 that is not a push, and a
\* completed push run of another tag
ListedRuns ==
    { WorkflowRun(1, "push", "completed", "v1"),
      WorkflowRun(2, "push", "completed", "v2"),
      WorkflowRun(3, "push", "completed", "v1"),
      WorkflowRun(4, "push", "in_progress", "v2"),
      WorkflowRun(5, "pull_request", "completed", "v1"),
      WorkflowRun(6, "push", "completed", "v3") }

\* what listWorkflowRuns with per_page: 1 can answer: an error of status 404
\* or 500, or at most one run
Responses ==
    { [kind |-> "error", status |-> 404, workflow_runs |-> <<>>],
      [kind |-> "error", status |-> 500, workflow_runs |-> <<>>] }
    \cup { [kind |-> "ok", status |-> 200, workflow_runs |-> w] :
              w \in {<<>>} \cup {<<r>> : r \in ListedRuns} }

\* a run taken whatever its status
IsCompletedTagRun_AnyStatus(r, t) ==
    ~(r.event # "push" \/ r.head_branch # t)

\* the negation of "event !== 'push' || status !== 'completed' ||
\* runTag !== tag"
IsCompletedTagRun(r, t) ==
    ~(r.event # "push" \/ r.status # "completed" \/ r.head_branch # t)

InitRun ==
    /\ PassIdle
    /\ RunsIdle
    /\ tag \in TagNames
    /\ runPc = "sleeping"
    /\ sleepCount = 0
    /\ requestCount = 0
    /\ response = NoResponse
    /\ run = NoRun

\* "await sleep(15 * 1000)" ends and the request is made
RunSleepEnds ==
    /\ runPc = "sleeping"
    /\ sleepCount < MaxPolls
    /\ sleepCount' = sleepCount + 1
    /\ runPc' = "listing"
    /\ UNCHANGED <<tag, requestCount, response, run, passVars, runsVars>>

\* listWorkflowRuns settles with r: the catch, the two "continue" and the
\* return
ListSettles(r) ==
    /\ runPc = "listing"
    /\ response' = r
    /\ requestCount' = requestCount + 1
    /\ IF r.kind = "error"
       THEN /\ runPc' = IF r.status # 404 THEN "thrown" ELSE "sleeping"
            /\ UNCHANGED run
       ELSE IF Len(r.workflow_runs) = 0
            THEN runPc' = "sleeping" /\ UNCHANGED run
            ELSE IF ~IsCompletedTagRun(r.workflow_runs[1], tag)
                 THEN runPc' = "sleeping" /\ UNCHANGED run
                 ELSE runPc' = "returned" /\ run' = r.workflow_runs[1]
    /\ UNCHANGED <<tag, sleepCount, passVars, runsVars>>

NextRun ==
    \/ RunSleepEnds
    \/ \E r \in Responses : ListSettles(r)

SpecRun == InitRun /\ [][NextRun]_vars

(***************************************************************************)
(* waitForCompletedTagWorkflowRuns(fileName, tags): sleep, go through the  *)
(* pages of the listing gathering the completed push run of each tag, stop *)
(* when every tag has one, and start again when the pages end before that. *)
(***************************************************************************)
MaxScans == 2
MaxPages == 2
PerPage == 2
MaxTags == 2

\* the tags argument: any array of tag names, the empty one and those that
\* name a tag twice included
TagLists == SeqsUpTo(TagNames, MaxTags)

\* a page of the listing: runs that differ from one another
Pages ==
    {p \in SeqsUpTo(ListedRuns, PerPage) :
        \A i, j \in 1..Len(p) : p[i].id = p[j].id => i = j}

\* Object.keys(tagRuns)
Keys(tr) == {t \in DOMAIN tr : tr[t] # NoRun}

\* tags.includes(runTag)
Includes(tgs, t) == \E k \in 1..Len(tgs) : tgs[k] = t

\* a scan that never stops before the last page
Covered_Never(tr, tgs) == FALSE

\* "Object.keys(tagRuns).length >= tags.length"
Covered(tr, tgs) == Cardinality(Keys(tr)) >= Len(tgs)

\* "for (const run of runs)": the runs of one page, up to the break
RECURSIVE ScanRuns(_, _, _, _, _)
ScanRuns(page, k, tr, seen, tgs) ==
    IF k > Len(page)
    THEN [tagRuns |-> tr, scanned |-> seen, broke |-> FALSE]
    ELSE IF \/ page[k].event # "push"
            \/ page[k].status # "completed"
            \/ ~Includes(tgs, page[k].head_branch)
         THEN ScanRuns(page, k + 1, tr, seen \cup {page[k].id}, tgs)
         ELSE IF Covered([tr EXCEPT ![page[k].head_branch] = page[k]], tgs)
              THEN [tagRuns |-> [tr EXCEPT ![page[k].head_branch] = page[k]],
                    scanned |-> seen \cup {page[k].id},
                    broke |-> TRUE]
              ELSE ScanRuns(page, k + 1,
                            [tr EXCEPT ![page[k].head_branch] = page[k]],
                            seen \cup {page[k].id}, tgs)

InitRuns ==
    /\ PassIdle
    /\ RunIdle
    /\ tags \in TagLists
    /\ runsPc = "sleeping"
    /\ scans = 0
    /\ pageNo = 0
    /\ tagRuns = [t \in TagNames |-> NoRun]
    /\ scanned = {}
    /\ done = FALSE
    /\ runs = <<>>

\* "await sleep(15 * 1000)" ends: a new iterator and an empty tagRuns
RunsSleepEnds ==
    /\ runsPc = "sleeping"
    /\ scans < MaxScans
    /\ scans' = scans + 1
    /\ runsPc' = "paging"
    /\ pageNo' = 0
    /\ tagRuns' = [t \in TagNames |-> NoRun]
    /\ scanned' = {}
    /\ done' = FALSE
    /\ UNCHANGED <<tags, runs, passVars, runVars>>

\* the next page of the listing arrives, the last one or not: its runs are
\* gone through, and the scan goes on, starts again or returns
PageArrives(page, last) ==
    /\ runsPc = "paging"
    /\ pageNo < MaxPages
    /\ pageNo + 1 = MaxPages => last
    /\ page = <<>> => last /\ pageNo = 0
    /\ LET scan == ScanRuns(page, 1, tagRuns, scanned, tags)
       IN  /\ pageNo' = pageNo + 1
           /\ tagRuns' = scan.tagRuns
           /\ scanned' = scan.scanned
           /\ done' = (last /\ ~scan.broke)
           /\ IF ~scan.broke /\ ~last
              THEN runsPc' = "paging" /\ UNCHANGED runs
              ELSE IF Cardinality(Keys(scan.tagRuns)) < Len(tags)
                   THEN runsPc' = "sleeping" /\ UNCHANGED runs
                   ELSE /\ runsPc' = "returned"
                        /\ runs' = [k \in 1..Len(tags) |-> scan.tagRuns[tags[k]]]
    /\ UNCHANGED <<tags, scans, passVars, runVars>>

\* the request for the next page fails: nothing catches what "for await"
\* raises, and the helper rejects
PageFails ==
    /\ runsPc = "paging"
    /\ runsPc' = "thrown"
    /\ UNCHANGED <<tags, scans, pageNo, tagRuns, scanned, done, runs,
                   passVars, runVars>>

NextRuns ==
    \/ RunsSleepEnds
    \/ \E page \in Pages, last \in BOOLEAN : PageArrives(page, last)
    \/ PageFails

SpecRuns == InitRuns /\ [][NextRuns]_vars

(***************************************************************************)
(* Properties of the pass.                                                 *)
(***************************************************************************)
Ops == [i \in 1..(Len(uploads) + Len(updates)) |->
          IF i <= Len(uploads) THEN uploads[i] ELSE updates[i - Len(uploads)]]

OpSet == {Ops[i] : i \in 1..Len(Ops)}

Executed == groupState # "none"

StepFailed(op) == op.del = "failed" \/ op.read = "failed" \/ op.upl = "failed"

StepsInFlight(op) ==
    Cardinality({s \in {"del", "read", "upl"} : op[s] = "pending"})

\* C1: every operation the diff produced is started (the first step of each
\* is issued), an unsettled operation always has exactly one step in flight
\* whatever its siblings did (it is never cancelled or skipped), the outcome
\* of an operation is that of its own steps, and the results are aggregated
\* (the group is closed, the pass has returned) only once every operation of
\* both batches has settled.
C1_SettleAllBeforeAggregation ==
    Executed =>
        /\ Len(uploads) = Len(toUpload)
        /\ Len(updates) = Len(toUpdate)
        /\ \A i \in 1..Len(uploads) :
              uploads[i].desired = toUpload[i] /\ uploads[i].read # "none"
        /\ \A i \in 1..Len(updates) :
              /\ updates[i].existing = toUpdate[i][1]
              /\ updates[i].desired = toUpdate[i][2]
              /\ updates[i].del # "none"
        /\ \A op \in OpSet :
              /\ ~Settled(op) => StepsInFlight(op) = 1
              /\ op.status = "rejected" <=> StepFailed(op)
              /\ op.status = "fulfilled" <=> op.upl = "ok"
        /\ (groupState = "closed" \/ pc = "returned") =>
              \A op \in OpSet : Settled(op)

\* a pass that returned after an operation failed and siblings of both
\* batches still ran to success
C1_Witness ==
    /\ pc = "returned"
    /\ \E i \in 1..Len(uploads) : uploads[i].status = "rejected"
    /\ \E i \in 1..Len(uploads) : uploads[i].status = "fulfilled"
    /\ \E i \in 1..Len(updates) : updates[i].status = "fulfilled"

\* C2: the isSuccess flag a pass returns is true exactly when every
\* operation of the upload batch and of the update batch succeeded.
C2_IsSuccessIffAllSucceeded ==
    pc = "returned" =>
        (result[1] = TRUE <=> \A op \in OpSet : op.status = "fulfilled")

\* a pass that returned false although two operations succeeded
C2_Witness ==
    /\ pc = "returned"
    /\ result[1] = FALSE
    /\ Cardinality({i \in 1..Len(Ops) : Ops[i].status = "fulfilled"}) = 2
    /\ Cardinality({i \in 1..Len(Ops) : Ops[i].status = "rejected"}) = 1

FulfilledValues == {op.value : op \in {o \in OpSet : o.status = "fulfilled"}}

\* every order in which the members of a set can be listed
Orderings(S) ==
    {f \in [1..Cardinality(S) -> S] :
        \A i, j \in 1..Cardinality(S) : i # j => f[i] # f[j]}

\* C3: the returned list is in ascending order of name (localeCompare), and
\* it is the list the sort gives for every order in which the successful
\* operations' assets can be gathered: the completion order has no part in
\* it.
C3_SortedWhateverTheOrder ==
    pc = "returned" =>
        /\ \A i \in 1..Len(result[2]), j \in 1..Len(result[2]) :
              i < j => LocaleCompare(result[2][i].name, result[2][j].name) < 0
        /\ \A o \in Orderings(FulfilledValues) : SortAssets(o) = result[2]

\* three assets returned, where the batches in their own order (uploads
\* first, then updates) are not in order of name
C3_Witness ==
    /\ pc = "returned"
    /\ Len(result[2]) = 3
    /\ uploadResult.assets \o updateResult.assets # result[2]

RejectedReasons(batch) ==
    LET failed == SelectSeq(batch, LAMBDA op : op.status = "rejected")
    IN  [i \in 1..Len(failed) |-> failed[i].reason]

\* C4: the returned list holds exactly one entry for each operation that
\* succeeded and nothing else (no entry of a failed operation, none of an
\* existing asset), and the failures reported for a batch are those of the
\* operations that failed, each under the name of its own artifact.
C4_ExactlyTheSucceeded ==
    pc = "returned" =>
        /\ Len(result[2]) =
              Cardinality({i \in 1..Len(Ops) : Ops[i].status = "fulfilled"})
        /\ \A i \in 1..Len(Ops) :
              Ops[i].status = "fulfilled" =>
                 Cardinality({k \in 1..Len(result[2]) :
                                 result[2][k] = Ops[i].value}) = 1
        /\ \A k \in 1..Len(result[2]) :
              /\ \E op \in OpSet :
                    op.status = "fulfilled" /\ op.value = result[2][k]
              /\ \A e \in 1..Len(existingAssets) :
                    result[2][k].id # existingAssets[e].id
        /\ uploadResult.failureReasons = RejectedReasons(uploads)
        /\ updateResult.failureReasons = RejectedReasons(updates)
        /\ \A op \in OpSet :
              op.status = "rejected" => op.reason.name = op.desired.name

\* three desired artifacts of which only the second fails: the other two
\* are returned, with isSuccess false
C4_Witness ==
    /\ pc = "returned"
    /\ Len(desiredAssets) = 3
    /\ Len(toUpload) = 3
    /\ uploads[1].status = "fulfilled"
    /\ uploads[2].status = "rejected"
    /\ uploads[3].status = "fulfilled"
    /\ result[1] = FALSE
    /\ Len(result[2]) = 2
    /\ uploadResult.failureReasons = <<uploads[2].reason>>
    /\ existingAssets # <<>>

\* C5: an update issues the file read and the upload request only after its
\* delete has succeeded; when the delete fails the operation fails and
\* neither the read nor the request is ever issued.
C5_DeleteThenUpload ==
    \A i \in 1..Len(updates) :
        /\ updates[i].del # "none"
        /\ (updates[i].read # "none" \/ updates[i].upl # "none") =>
              /\ updates[i].del = "ok"
              /\ \A k \in 1..Len(remote) : remote[k] # updates[i].existing
        /\ updates[i].del = "failed" =>
              /\ updates[i].status = "rejected"
              /\ updates[i].reason.step = "delete"
              /\ updates[i].read = "none"
              /\ updates[i].upl = "none"

\* a pass that ended with one update whose delete failed and one that was
\* deleted and uploaded
C5_Witness ==
    /\ pc = "returned"
    /\ \E i \in 1..Len(updates) : updates[i].del = "failed"
    /\ \E i \in 1..Len(updates) : updates[i].del = "ok" /\ updates[i].upl = "ok"

\* a pattern that matches at least one entry that is not a directory
Eligible(pattern) ==
    \E k \in 1..Len(FS) : ~FS[k].isDirectory /\ GlobHit(pattern, FS[k].path)

MissingMandatory ==
    {k \in 1..Len(assets) : ~IsOptional(assets[k]) /\ ~Eligible(assets[k].path)}

\* C6: when a mandatory descriptor matches no eligible file the pass never
\* gets past that descriptor, so it can only fail: nothing is executed or
\* returned and the release is untouched, whatever the descriptors before it
\* matched. In every pass no operation exists before the last descriptor
\* has been expanded.
C6_MandatoryMissingFailsBeforeRemote ==
    /\ MissingMandatory # {} =>
          /\ pc \in {"find", "thrown"}
          /\ \A k \in MissingMandatory : idx <= k
          /\ ~Executed
          /\ uploads = <<>> /\ updates = <<>>
          /\ remote = existingAssets
          /\ result = <<>>
    /\ (Executed \/ uploads # <<>> \/ updates # <<>> \/ remote # existingAssets)
          => idx > Len(assets)

\* the pass failed at its second descriptor after the first one matched
\* files, on a release that holds assets
C6_Witness ==
    /\ pc = "thrown"
    /\ idx = 2
    /\ found # <<>>
    /\ existingAssets # <<>>
    /\ remote = existingAssets

AllReasons == uploadResult.failureReasons \o updateResult.failureReasons

\* C7: modifyReleaseAssets rejects only during discovery; once operations
\* exist, a failed step (delete, read, upload) makes its own operation a
\* rejected one with that step as the reason, and the pass returns a pair of
\* a boolean and a list in which every such failure is counted.
C7_ExecutionFailuresAreOutcomes ==
    /\ pc = "thrown" =>
          /\ ~Executed
          /\ idx <= Len(assets)
          /\ uploads = <<>> /\ updates = <<>>
    /\ Executed => pc \in {"executing", "returned"}
    /\ \A op \in OpSet :
          StepFailed(op) =>
             /\ op.status = "rejected"
             /\ op.reason.step \in {"delete", "read", "upload"}
             /\ op.reason.step = "delete" <=> op.del = "failed"
             /\ op.reason.step = "read" <=> op.read = "failed"
             /\ op.reason.step = "upload" <=> op.upl = "failed"
    /\ pc = "returned" =>
          /\ Len(result) = 2
          /\ result[1] \in BOOLEAN
          /\ result[2] \in Seq({op.value : op \in OpSet})
          /\ uploadResult.failureCount + updateResult.failureCount =
                Cardinality({i \in 1..Len(Ops) : StepFailed(Ops[i])})
          /\ \A op \in OpSet :
                StepFailed(op) =>
                   \E k \in 1..Len(AllReasons) : AllReasons[k] = op.reason

\* a pass that returned after a delete, a file read and an upload request
\* had each failed
C7_Witness ==
    /\ pc = "returned"
    /\ \E op \in OpSet : op.del = "failed"
    /\ \E op \in OpSet : op.read = "failed"
    /\ \E op \in OpSet : op.upl = "failed"

\* C8: the remote release never holds two assets of one name; while the
\* upload request of an operation is in flight, no asset of the artifact's
\* name is on the release.
C8_NoDuplicateRemoteName ==
    /\ \A i, j \in 1..Len(remote) :
          i # j => remote[i].name # remote[j].name
    /\ \A op \in OpSet :
          op.upl = "pending" =>
             \A k \in 1..Len(remote) : remote[k].name # op.desired.name

\* an existing asset has been replaced: the release holds the new asset of
\* that name, and not the old one
C8_Witness ==
    \E i \in 1..Len(updates) :
        /\ updates[i].status = "fulfilled"
        /\ \E k \in 1..Len(remote) : remote[k] = updates[i].value
        /\ \A k \in 1..Len(remote) : remote[k] # updates[i].existing
        /\ Len(remote) >= 2

Unmatched(e) ==
    \A k \in 1..Len(desiredAssets) : desiredAssets[k].name # e.name

\* C9: an existing asset whose name is the name of no desired artifact stays
\* on the release as it was: it is in no toUpdate pair, no operation deletes
\* it, and the returned list does not report it.
C9_UnmatchedExistingUntouched ==
    \A e \in 1..Len(existingAssets) :
        Unmatched(existingAssets[e]) =>
           /\ \E k \in 1..Len(remote) : remote[k] = existingAssets[e]
           /\ \A i \in 1..Len(toUpdate) : toUpdate[i][1] # existingAssets[e]
           /\ \A i \in 1..Len(updates) :
                 updates[i].existing.id # existingAssets[e].id
           /\ pc = "returned" =>
                 \A k \in 1..Len(result[2]) :
                    /\ result[2][k].id # existingAssets[e].id
                    /\ result[2][k].name # existingAssets[e].name

\* a pass that replaced one existing asset and left alone another whose
\* name differs from a desired name in case only
C9_Witness ==
    /\ pc = "returned"
    /\ \E i \in 1..Len(updates) : updates[i].status = "fulfilled"
    /\ \E e \in 1..Len(existingAssets) :
          /\ Unmatched(existingAssets[e])
          /\ \E k \in 1..Len(desiredAssets) :
                ToLowerCase(desiredAssets[k].name) =
                   ToLowerCase(existingAssets[e].name)

RECURSIVE Discovered(_)
Discovered(k) ==
    IF k = 0 THEN <<>> ELSE Discovered(k - 1) \o FindAsset(assets[k]).assets

SameNameIgnoringCase(a, b) == ToLowerCase(a.name) = ToLowerCase(b.name)

\* C10: the list findAssets returns has no two names equal up to case; it is
\* the discovered candidates (descriptors in order, each one's matches in
\* glob order) without those that repeat the name of an earlier candidate,
\* in their order, and one warning names each candidate dropped.
C10_FirstOccurrenceKept ==
    (pc \in {"executing", "returned"}) =>
        LET lower == [i \in 1..Len(found) |-> ToLowerCase(found[i].name)]
            first == {i \in 1..Len(found) :
                        \A j \in 1..(i - 1) : lower[j] # lower[i]}
            later == (1..Len(found)) \ first
        IN  /\ found = Discovered(Len(assets))
            /\ \A i, j \in 1..Len(desiredAssets) :
                  i # j => ~SameNameIgnoringCase(desiredAssets[i], desiredAssets[j])
            /\ Len(desiredAssets) = Cardinality(first)
            /\ \A i \in first :
                  desiredAssets[Cardinality({j \in first : j <= i})] = found[i]
            /\ Len(warnings) = Cardinality(later)
            /\ \A i \in later :
                  warnings[Cardinality({j \in later : j <= i})] = found[i].name

\* two candidates were dropped, one of them for a name that differs from the
\* kept one in case only, and three were kept
C10_Witness ==
    /\ pc \in {"executing", "returned"}
    /\ Len(desiredAssets) = 3
    /\ Len(warnings) >= 2
    /\ \E i \in 1..Len(warnings), k \in 1..Len(desiredAssets) :
          /\ warnings[i] # desiredAssets[k].name
          /\ ToLowerCase(warnings[i]) = ToLowerCase(desiredAssets[k].name)

\* the places a desired artifact takes in toUpload and in toUpdate
UploadPlaces(d) == {i \in 1..Len(toUpload) : toUpload[i] = d}
UpdatePlaces(d) == {i \in 1..Len(toUpdate) : toUpdate[i][2] = d}

\* C11: diffAssets puts every desired artifact at exactly one place of
\* toUpload and toUpdate taken together (never in both, never twice), and
\* every entry of the two lists is a desired artifact.
C11_DiffIsAPartition ==
    Executed =>
        /\ \A k \in 1..Len(desiredAssets) :
              Cardinality(UploadPlaces(desiredAssets[k])) +
              Cardinality(UpdatePlaces(desiredAssets[k])) = 1
        /\ Len(toUpload) + Len(toUpdate) = Len(desiredAssets)
        /\ \A i \in 1..Len(toUpload) :
              \E k \in 1..Len(desiredAssets) : desiredAssets[k] = toUpload[i]
        /\ \A i \in 1..Len(toUpdate) :
              \E k \in 1..Len(desiredAssets) : desiredAssets[k] = toUpdate[i][2]

\* three desired artifacts, split between the two lists
C11_Witness ==
    /\ Executed
    /\ Len(desiredAssets) = 3
    /\ Len(toUpload) = 1
    /\ Len(toUpdate) = 2

NameOnly(list) == [i \in 1..Len(list) |-> list[i].name]

FileA  == <<"a", ".", "t", "x", "t">>
FileB1 == <<"b", ".", "1", ".", "j", "s", "o", "n">>
FileB2 == <<"b", ".", "2", ".", "j", "s", "o", "n">>

\* C12: a desired artifact is in toUpdate, paired with the first existing
\* asset of the same name, exactly when an existing asset has its name
\* character for character; otherwise it is in toUpload, also when an
\* existing asset has its name up to case, and that asset is then in no
\* pair. Descriptors a.txt and b.*.json with existing [a.txt] give
\* toUpdate = [(a.txt, a.txt)] and toUpload = [b.1.json, b.2.json].
C12_ExactNameDecides ==
    Executed =>
        /\ \A k \in 1..Len(desiredAssets) :
              LET d == desiredAssets[k]
                  same == {e \in 1..Len(existingAssets) :
                              existingAssets[e].name = d.name}
              IN  IF same # {}
                  THEN /\ UploadPlaces(d) = {}
                       /\ \E i \in 1..Len(toUpdate) :
                             toUpdate[i] =
                                <<existingAssets[CHOOSE e \in same :
                                                    \A f \in same : e <= f], d>>
                  ELSE /\ UpdatePlaces(d) = {}
                       /\ UploadPlaces(d) # {}
        /\ \A i \in 1..Len(toUpdate) : toUpdate[i][1].name = toUpdate[i][2].name
        /\ (/\ NameOnly(desiredAssets) = <<FileA, FileB1, FileB2>>
            /\ NameOnly(existingAssets) = <<FileA>>) =>
              /\ toUpdate = <<<<existingAssets[1], desiredAssets[1]>>>>
              /\ toUpload = <<desiredAssets[2], desiredAssets[3]>>

\* the pass of descriptors a.txt and b.*.json on a release that holds
\* a.txt, all three operations done
C12_Witness ==
    /\ Len(assets) = 2
    /\ assets[1] = Descriptor(FileA, Empty, Empty, "absent")
    /\ assets[2] = Descriptor(<<"b", ".", "*", ".", "j", "s", "o", "n">>,
                              Empty, Empty, "absent")
    /\ NameOnly(existingAssets) = <<FileA>>
    /\ pc = "returned"
    /\ Len(toUpdate) = 1
    /\ NameOnly(toUpdate[1]) = <<FileA, FileA>>
    /\ NameOnly(toUpload) = <<FileB1, FileB2>>
    /\ result[1] = TRUE
    /\ NameOnly(result[2]) = <<FileA, FileB1, FileB2>>

\* the files (not the directories) a pattern matches, as places of FS
EligiblePlaces(pattern) ==
    {i \in 1..Len(FS) : ~FS[i].isDirectory /\ GlobHit(pattern, FS[i].path)}

\* the number of candidates the descriptors before the k-th contribute
RECURSIVE Offset(_)
Offset(k) ==
    IF k <= 1 THEN 0
    ELSE Offset(k - 1) + Cardinality(EligiblePlaces(assets[k - 1].path))

\* C13: a descriptor whose pattern matches no file (directories do not
\* count) is passed only when its optional is true, and then adds no
\* candidate and one note; when optional is false or absent the pass fails
\* at that descriptor with the mandatory-asset error.
C13_NoMatchOptionalOrFatal ==
    LET unmatched == {k \in 1..Len(assets) : EligiblePlaces(assets[k].path) = {}}
        passed    == {k \in unmatched : k < idx}
    IN  /\ \A k \in unmatched :
              IF assets[k].optional = "true"
              THEN k < idx => Offset(k + 1) = Offset(k)
              ELSE /\ idx <= k
                   /\ (idx = k /\ pc # "find") =>
                         pc = "thrown" /\ thrown = "MandatoryAssetNotFound"
        /\ pc = "thrown" =>
              /\ idx \in unmatched
              /\ assets[idx].optional \in {"false", "absent"}
        /\ Len(found) = Offset(idx)
        /\ Len(notes) = Cardinality(passed)
        /\ \A k \in passed :
              notes[Cardinality({j \in passed : j <= k})] = assets[k].path

\* an optional descriptor without a match was passed with its note, and the
\* pass failed at the next one, which matches a directory only and leaves
\* optional out
C13_Witness ==
    /\ pc = "thrown"
    /\ idx = 2
    /\ assets[1].optional = "true"
    /\ notes = <<assets[1].path>>
    /\ found = <<>>
    /\ assets[2].path = <<"e">>
    /\ assets[2].optional = "absent"

\* the k-th place of a set of places, in ascending order
Nth(places, r) ==
    CHOOSE i \in places : Cardinality({j \in places : j <= i}) = r

\* C14: the candidates of a descriptor that matches exactly one file are
\* that file under the descriptor's name (the file's base name when it has
\* none) and label (empty when it has none), wildcard or not; those of a
\* descriptor that matches several files are the files in glob order, each
\* under its own base name with an empty label.
C14_OverridesForOneMatchOnly ==
    \A k \in 1..Len(assets) :
        k < idx =>
           LET places == EligiblePlaces(assets[k].path)
               n      == Cardinality(places)
           IN  /\ Len(found) >= Offset(k) + n
               /\ n = 1 =>
                     found[Offset(k) + 1] =
                        [path  |-> FS[Nth(places, 1)].path,
                         name  |-> IF assets[k].name # Empty
                                   THEN assets[k].name
                                   ELSE Basename(FS[Nth(places, 1)].path),
                         label |-> assets[k].label]
               /\ n > 1 =>
                     \A r \in 1..n :
                        found[Offset(k) + r] =
                           [path  |-> FS[Nth(places, r)].path,
                            name  |-> Basename(FS[Nth(places, r)].path),
                            label |-> Empty]

\* a wildcard that matches one file took the name and the label of its
\* descriptor, and a wildcard that matches two files did not
C14_Witness ==
    /\ idx = 3
    /\ assets[1] = Descriptor(<<"b", ".", "1", ".", "*">>, NameUpperA, LabelL, "false")
    /\ assets[2].path = <<"b", ".", "*", ".", "j", "s", "o", "n">>
    /\ assets[2].name = NameUpperA
    /\ NameOnly(found) = <<NameUpperA, FileB1, FileB2>>
    /\ found[1].label = LabelL
    /\ found[2].label = Empty

\* C15: the filter of findAssets applied to the list it returned gives that
\* list back and warns of nothing; and every candidate is represented in the
\* list by the first candidate of its name up to case, and by no other.
C15_FilterIdempotent ==
    (pc \in {"executing", "returned"}) =>
        /\ FilterFound(desiredAssets) = [kept |-> desiredAssets, warnings |-> <<>>]
        /\ \A i \in 1..Len(found) :
              LET firstOfName ==
                     CHOOSE j \in 1..i :
                        /\ SameNameIgnoringCase(found[j], found[i])
                        /\ \A h \in 1..(j - 1) :
                              ~SameNameIgnoringCase(found[h], found[i])
              IN  {k \in 1..Len(desiredAssets) :
                      SameNameIgnoringCase(desiredAssets[k], found[i])}
                  = {k \in 1..Len(desiredAssets) :
                        desiredAssets[k] = found[firstOfName]}
                  /\ \E k \in 1..Len(desiredAssets) :
                        desiredAssets[k] = found[firstOfName]

\* three candidates of one name up to case, in two spellings, of which the
\* first was kept
C15_Witness ==
    /\ pc \in {"executing", "returned"}
    /\ \E i, j, k \in 1..Len(found) :
          /\ i < j /\ j < k
          /\ SameNameIgnoringCase(found[i], found[j])
          /\ SameNameIgnoringCase(found[j], found[k])
          /\ found[i].name # found[k].name
          /\ desiredAssets[1] = found[i]
    /\ Len(warnings) >= 2

\* the place of operation i among the operations of its batch with its status
RankByStatus(batch, i) ==
    Cardinality({j \in 1..i : batch[j].status = batch[i].status})

\* the outcome of an operation is that of the input at its place
OutcomeOfInput(op, desired) ==
    /\ op.desired = desired
    /\ op.status = "fulfilled" =>
          /\ op.value = NormalizeApiAsset(ApiAsset(desired, op.value.id))
          /\ op.value.id \notin ExistingIds
    /\ op.status = "rejected" => op.reason.name = desired.name

OneOperationEach ==
    Executed =>
        /\ Len(Ops) = Len(desiredAssets)
        /\ \A k \in 1..Len(desiredAssets) :
              Cardinality({i \in 1..Len(Ops) :
                              Ops[i].desired = desiredAssets[k]}) = 1
        /\ \A i, j \in 1..Len(Ops) :
              (/\ Ops[i].status = "fulfilled"
               /\ Ops[j].status = "fulfilled"
               /\ Ops[i].value.id = Ops[j].value.id) => i = j
        /\ \A i \in 1..Len(uploads) :
              /\ OutcomeOfInput(uploads[i], toUpload[i])
              /\ uploads[i].existing = NoAsset
        /\ \A i \in 1..Len(updates) :
              /\ OutcomeOfInput(updates[i], toUpdate[i][2])
              /\ updates[i].existing = toUpdate[i][1]
        /\ pc = "returned" =>
              /\ \A i \in 1..Len(uploads) :
                    IF uploads[i].status = "fulfilled"
                    THEN uploadResult.assets[RankByStatus(uploads, i)]
                            = uploads[i].value
                    ELSE uploadResult.failureReasons[RankByStatus(uploads, i)].name
                            = toUpload[i].name
              /\ \A i \in 1..Len(updates) :
                    IF updates[i].status = "fulfilled"
                    THEN updateResult.assets[RankByStatus(updates, i)]
                            = updates[i].value
                    ELSE updateResult.failureReasons[RankByStatus(updates, i)].name
                            = toUpdate[i][2].name

SettledStays ==
    /\ \A i \in 1..Len(uploads) :
          Settled(uploads[i]) =>
             /\ uploads'[i].status = uploads[i].status
             /\ uploads'[i].value = uploads[i].value
             /\ uploads'[i].reason = uploads[i].reason
    /\ \A i \in 1..Len(updates) :
          Settled(updates[i]) =>
             /\ updates'[i].status = updates[i].status
             /\ updates'[i].value = updates[i].value
             /\ updates'[i].reason = updates[i].reason

\* C16: in a pass that reaches execution there is exactly one operation for
\* each desired artifact, an upload or an update; the outcome at place i of
\* a batch, and in the batch's analysed result, is the outcome of the
\* operation for input i, whatever the order of completion; and an
\* operation that has settled keeps its outcome for the rest of the pass.
C16_OneOutcomePerArtifactByPosition ==
    []OneOperationEach /\ [][SettledStays]_vars

\* a pass that returned with the first upload a success, the second a
\* failure, and each in its own list of the batch's result
C16_Witness ==
    /\ pc = "returned"
    /\ Len(uploads) = 2
    /\ Len(updates) = 1
    /\ uploads[1].status = "fulfilled"
    /\ uploads[2].status = "rejected"
    /\ updates[1].status = "fulfilled"
    /\ uploadResult.assets = <<uploads[1].value>>
    /\ uploadResult.failureReasons = <<uploads[2].reason>>

\* C17: in one pass every remote call and every file read of an operation
\* is issued at most once, whether it succeeds or fails: an upload never
\* deletes, an update issues its delete once, and the upload request of an
\* operation is issued once when its file was read and never otherwise.
C17_NoRetry ==
    \A i \in 1..Len(Ops) :
        LET op == Ops[i]
        IN  /\ op.calls.del = (IF i <= Len(uploads) THEN 0 ELSE 1)
            /\ op.calls.read = (IF op.read = "none" THEN 0 ELSE 1)
            /\ op.calls.upl = (IF op.upl = "none" THEN 0 ELSE 1)
            /\ op.upl # "none" <=> op.read = "ok"
            /\ op.del = "failed" => op.calls.read = 0 /\ op.calls.upl = 0
            /\ op.read = "failed" => op.calls.upl = 0

\* a pass that returned after a delete failed and an upload request failed,
\* each issued once
C17_Witness ==
    /\ pc = "returned"
    /\ \E i \in 1..Len(updates) :
          updates[i].del = "failed" /\ updates[i].calls.del = 1
    /\ \E i \in 1..Len(uploads) :
          uploads[i].upl = "failed" /\ uploads[i].calls.upl = 1

\* the operations no step of which has settled
Untouched ==
    {i \in 1..Len(Ops) :
        Cardinality({s \in {"del", "read", "upl"} :
                        Ops[i][s] \in {"ok", "failed"}}) = 0}

\* C18: the first step of every operation (the file read of an upload, the
\* delete of an update) is issued when execution begins, while no operation
\* has resolved; and as long as the pass executes, the step an operation
\* has in flight can settle, either way, whatever the state of its
\* siblings.
C18_AllInFlightTogether ==
    /\ Executed =>
          /\ \A i \in 1..Len(uploads) : uploads[i].calls.read = 1
          /\ \A i \in 1..Len(updates) : updates[i].calls.del = 1
          /\ \A i \in Untouched :
                Ops[i].status = "pending" /\
                (IF i <= Len(uploads)
                 THEN Ops[i].read = "pending"
                 ELSE Ops[i].del = "pending")
    /\ pc = "executing" =>
          /\ \A i \in 1..Len(uploads), ok \in BOOLEAN :
                /\ uploads[i].read = "pending" => ENABLED UploadReadSettles(i, ok)
                /\ uploads[i].upl = "pending" => ENABLED UploadRequestSettles(i, ok)
          /\ \A i \in 1..Len(updates), ok \in BOOLEAN :
                /\ updates[i].del = "pending" => ENABLED DeleteSettles(i, ok)
                /\ updates[i].read = "pending" => ENABLED UpdateReadSettles(i, ok)
                /\ updates[i].upl = "pending" => ENABLED UpdateRequestSettles(i, ok)

\* three operations of both batches in flight with none resolved
C18_Witness ==
    /\ pc = "executing"
    /\ Len(uploads) >= 1
    /\ Len(updates) >= 1
    /\ Len(Ops) = 3
    /\ Untouched = 1..Len(Ops)

ValuesOf(ops) == [i \in 1..Len(ops) |-> ops[i].value]

\* what analyzeResults is to return for a batch of settled operations
Analysed(batch, res) ==
    LET fulfilled == SelectSeq(batch, LAMBDA op : op.status = "fulfilled")
    IN  /\ res.successCount + res.failureCount = Len(batch)
        /\ Len(res.assets) = res.successCount
        /\ res.assets = ValuesOf(fulfilled)
        /\ Len(res.failureReasons) = res.failureCount
        /\ res.failureReasons = RejectedReasons(batch)
        /\ res.isSuccess <=> res.failureCount = 0

\* C19: for each batch the analysed result has successCount + failureCount
\* equal to the number of operations, the fulfilled values in input order
\* as its assets (successCount of them), the rejection reasons in input
\* order as its failureReasons (failureCount of them), and isSuccess true
\* exactly when failureCount is 0.
C19_AnalysedBatch ==
    (pc = "returned" /\ Executed) =>
        /\ Analysed(uploads, uploadResult)
        /\ Analysed(updates, updateResult)

\* a batch of two with one success and one failure beside a batch of one
\* success
C19_Witness ==
    /\ pc = "returned"
    /\ Len(uploads) = 2
    /\ uploadResult.successCount = 1
    /\ uploadResult.failureCount = 1
    /\ ~uploadResult.isSuccess
    /\ Len(updates) = 1
    /\ updateResult.successCount = 1
    /\ updateResult.isSuccess

OnRelease(id) == \E k \in 1..Len(remote) : remote[k].id = id

NamedOnRelease(name) == \E k \in 1..Len(remote) : remote[k].name = name

\* C20: at the end of a pass the old asset of an update pair is on the
\* release exactly when its delete failed; when the delete succeeded and
\* the file read or the upload request that follows failed, the release has
\* no asset of that name, the operation is a failure and the pass returns
\* isSuccess false.
C20_UpdateNotAtomic ==
    (pc = "returned" /\ Executed) =>
        \A i \in 1..Len(updates) :
            /\ OnRelease(toUpdate[i][1].id) <=> updates[i].del = "failed"
            /\ (updates[i].del = "ok" /\
                  (updates[i].read = "failed" \/ updates[i].upl = "failed")) =>
                   /\ ~NamedOnRelease(toUpdate[i][2].name)
                   /\ updates[i].status = "rejected"
                   /\ ~updateResult.isSuccess
                   /\ result[1] = FALSE

\* a pass that ended with one asset deleted and not replaced, and another
\* kept because its delete failed
C20_Witness ==
    /\ pc = "returned"
    /\ Len(updates) = 2
    /\ updates[1].del = "ok"
    /\ updates[1].upl = "failed"
    /\ ~NamedOnRelease(toUpdate[1][2].name)
    /\ updates[2].del = "failed"
    /\ OnRelease(toUpdate[2][1].id)
    /\ result[1] = FALSE

\* the update operations that target the existing asset of an id
UpdatesOf(id) == {i \in 1..Len(updates) : updates[i].existing.id = id}

\* C21: in one pass every existing asset is in at most one toUpdate pair,
\* so that no two update operations target the same asset id and the delete
\* of an existing asset is issued at most once.
C21_ExistingDeletedAtMostOnce ==
    Executed =>
        /\ \A i, j \in 1..Len(toUpdate) :
              toUpdate[i][1].id = toUpdate[j][1].id => i = j
        /\ \A e \in 1..Len(existingAssets) :
              LET targeting == UpdatesOf(existingAssets[e].id)
              IN  /\ Cardinality(targeting) <= 1
                  /\ \A i \in targeting : updates[i].calls.del = 1
        /\ \A i \in 1..Len(updates) :
              \E e \in 1..Len(existingAssets) :
                 existingAssets[e] = updates[i].existing

\* a pass in which discovery met a name twice and both existing assets were
\* deleted, each by its own update
C21_Witness ==
    /\ pc = "returned"
    /\ Len(warnings) >= 1
    /\ Len(existingAssets) = 2
    /\ Len(updates) = 2
    /\ updates[1].del = "ok"
    /\ updates[2].del = "ok"

NothingDesired == pc \in {"executing", "returned"} /\ Len(desiredAssets) = 0

\* C22: when discovery yields no desired artifact no operation is started,
\* the release keeps exactly the assets it had, and what the pass returns is
\* (true, []); when the release has no assets either, the pass returns
\* without opening the group, and otherwise the group is opened.
C22_NothingDesiredNothingDone ==
    NothingDesired =>
        /\ uploads = <<>> /\ updates = <<>>
        /\ toUpload = <<>> /\ toUpdate = <<>>
        /\ remote = existingAssets
        /\ pc = "returned" => result = <<TRUE, <<>>>>
        /\ IF Len(existingAssets) = 0
           THEN pc = "returned" /\ groupState = "none"
           ELSE groupState # "none" /\ (pc = "returned" <=> groupState = "closed")

\* a release of two assets left as it was by a pass whose only descriptor is
\* optional and matches nothing
C22_Witness ==
    /\ pc = "returned"
    /\ Len(desiredAssets) = 0
    /\ Len(notes) >= 1
    /\ Len(existingAssets) = 2
    /\ remote = existingAssets
    /\ groupState = "closed"
    /\ result = <<TRUE, <<>>>>

DiscoverySucceeds ==
    \A k \in 1..Len(assets) : Eligible(assets[k].path) \/ IsOptional(assets[k])

\* C23: when discovery succeeds and every file read, delete and upload
\* request is answered, the pass returns its report, whichever of its
\* operations failed.
C23_PassReturns == DiscoverySucceeds ~> (pc = "returned" /\ Len(result) = 2)

\* a pass that returned after a delete and a file read had failed
C23_Witness ==
    /\ pc = "returned"
    /\ result[1] = FALSE
    /\ \E i \in 1..Len(updates) : updates[i].del = "failed"
    /\ \E i \in 1..Len(uploads) : uploads[i].read = "failed"

\* C24: waitForCompletedTagWorkflowRun returns only the listed run whose
\* event is push, whose status is completed and whose head_branch is the
\* tag; it goes back to sleep after a 404, an empty listing or a run that
\* fails one of the three conditions; it fails with the error of a listing
\* whose status is not 404; and every request comes after a sleep of its
\* own.
C24_ReturnsCompletedTagRun ==
    (runPc # "idle") =>
        /\ runPc = "returned" =>
              /\ run.event = "push"
              /\ run.status = "completed"
              /\ run.head_branch = tag
              /\ response.kind = "ok"
              /\ response.workflow_runs = <<run>>
        /\ runPc # "returned" => run = NoRun
        /\ runPc = "thrown" <=> (response.kind = "error" /\ response.status # 404)
        /\ (runPc \in {"sleeping", "listing"} /\ requestCount > 0) =>
              \/ response.kind = "error" /\ response.status = 404
              \/ response.kind = "ok" /\ response.workflow_runs = <<>>
              \/ /\ response.kind = "ok"
                 /\ Len(response.workflow_runs) = 1
                 /\ \/ response.workflow_runs[1].event # "push"
                    \/ response.workflow_runs[1].status # "completed"
                    \/ response.workflow_runs[1].head_branch # tag
        /\ sleepCount = requestCount + (IF runPc = "listing" THEN 1 ELSE 0)

\* the run of the tag returned at the third request
C24_Witness ==
    /\ runPc = "returned"
    /\ requestCount = 3
    /\ sleepCount = 3
    /\ run.head_branch = tag
    /\ run.status = "completed"

\* the tags argument names no tag twice
DistinctTags == \A i, j \in 1..Len(tags) : tags[i] = tags[j] => i = j

\* every tag of the argument has a run in tagRuns
EveryTagHasARun == \A k \in 1..Len(tags) : tagRuns[tags[k]] # NoRun

\* what holds of the helper whatever the tags: the runs returned, the runs
\* kept, and the start of a scan
RunsOfOneScan ==
    /\ runsPc = "returned" =>
          /\ Len(runs) = Len(tags)
          /\ \A k \in 1..Len(tags) :
                /\ runs[k].head_branch = tags[k]
                /\ runs[k].event = "push"
                /\ runs[k].status = "completed"
                /\ runs[k].id \in scanned
    /\ runsPc # "returned" => runs = <<>>
    /\ \A t \in Keys(tagRuns) :
          /\ Includes(tags, t)
          /\ tagRuns[t].head_branch = t
          /\ tagRuns[t].event = "push"
          /\ tagRuns[t].status = "completed"
          /\ tagRuns[t].id \in scanned
    /\ (runsPc = "sleeping" /\ scans > 0) => done
    /\ (runsPc = "paging" /\ pageNo = 0) =>
          /\ Keys(tagRuns) = {}
          /\ scanned = {}
          /\ scans >= 1

====
